---- MODULE Spec2Model ----
(***************************************************************************)
(* A model of rucline's line reader: the Buffer (text + byte cursor), the  *)
(* navigation primitives, the action resolution, and the read_line loop    *)
(* with its inline completion and suggestion overlay.                      *)
(*                                                                         *)
(* A text is a sequence of Unicode scalars.  Scalars are named by strings; *)
(* every index of the Buffer is a BYTE offset into the UTF-8 encoding, as  *)
(* in the source, so that a cursor inside a multi-byte scalar is a value   *)
(* the model can represent and the invariants can reject.                  *)
(***************************************************************************)
EXTENDS Integers, Sequences, FiniteSets, TLC

\* ------------------------------------------------------------------------
\* Bounds
\* ------------------------------------------------------------------------

\* Largest number of scalars a text may hold before a Buffer write is refused
MaxLen == 3

\* Largest number of scalars the session's buffer may hold before a typed
\* scalar is refused
MaxTyped == 2

\* Largest number of scalars of a text the Buffer-only specification starts from
MaxInitLen == 2

\* Words of the longest line delete(WholeWord) is run on
MaxWords == 4

\* Buffer operations applied one after the other to one buffer
MaxOps == 2

\* Multiples of u16::MAX up to which cursor move amounts are drawn, and how
\* far around each multiple
MaxChunks == 3

MaxSlack == 3

\* ------------------------------------------------------------------------
\* Option values: None is the empty sequence, Some(x) the one-element one
\* ------------------------------------------------------------------------

None == <<>>

Some(x) == <<x>>

IsSome(o) == o /= <<>>

Unwrap(o) == o[1]

\* ------------------------------------------------------------------------
\* Scalars
\* ------------------------------------------------------------------------

\* U+1F600 GRINNING FACE, a four-byte scalar
Emoji == "U1F600"

\* U+1F1F7 REGIONAL INDICATOR SYMBOL LETTER R, a four-byte scalar; two of
\* them form one flag (one grapheme cluster, one word segment)
Flag == "U1F1F7"

Scalars == {"a", "x", " ", "\t", Emoji, Flag}

\* char::len_utf8
len_utf8(c) == IF c \in {Emoji, Flag} THEN 4 ELSE 1

\* char::is_whitespace
is_whitespace(c) == c \in {" ", "\t"}

\* Word_Break property of UAX #29, as unicode_segmentation uses it
WordBreak(c) ==
    CASE c \in {"a", "b", "c", "d", "x"} -> "ALetter"
      [] c = " "          -> "WSegSpace"
      [] c = Flag         -> "Regional_Indicator"
      [] OTHER            -> "Other"

\* ------------------------------------------------------------------------
\* Strings (str / String): byte lengths and scalar boundaries
\* ------------------------------------------------------------------------

RECURSIVE str_len(_)
\* str::len, the length in bytes
str_len(s) == IF s = <<>> THEN 0 ELSE len_utf8(Head(s)) + str_len(Tail(s))

\* Byte offset of the boundary that follows the first k scalars
ByteOffset(s, k) == str_len(SubSeq(s, 1, k))

\* str::is_char_boundary
is_char_boundary(s, i) == \E k \in 0..Len(s) : ByteOffset(s, k) = i

\* Number of scalars that start before byte offset i
CharsBefore(s, i) == Cardinality({k \in 0..Len(s) : k > 0 /\ ByteOffset(s, k - 1) < i})

\* All texts of at most n scalars
RECURSIVE TextsUpTo(_)
TextsUpTo(n) ==
    IF n = 0 THEN {<<>>}
    ELSE LET shorter == TextsUpTo(n - 1)
         IN shorter \cup {Append(t, c) : t \in {u \in shorter : Len(u) = n - 1}, c \in Scalars}

\* ------------------------------------------------------------------------
\* Word segmentation (unicode_segmentation::split_word_bound_indices)
\* ------------------------------------------------------------------------

RECURSIVE FlagRun(_, _)
\* Number of consecutive regional indicators that end at scalar k
FlagRun(s, k) ==
    IF k = 0 \/ WordBreak(s[k]) /= "Regional_Indicator" THEN 0
    ELSE 1 + FlagRun(s, k - 1)

\* UAX #29: no word boundary between scalar k and scalar k+1
\* (WB3d spaces, WB5 letters, WB15/WB16 pairs of regional indicators)
NoWordBreak(s, k) ==
    \/ WordBreak(s[k]) = "ALetter" /\ WordBreak(s[k + 1]) = "ALetter"
    \/ WordBreak(s[k]) = "WSegSpace" /\ WordBreak(s[k + 1]) = "WSegSpace"
    \/ /\ WordBreak(s[k]) = "Regional_Indicator"
       /\ WordBreak(s[k + 1]) = "Regional_Indicator"
       /\ FlagRun(s, k) % 2 = 1

\* The word segments of s, each as (byte offset, text): pair.0 and pair.1
split_word_bound_indices(s) ==
    LET starts == {k \in 0..(Len(s) - 1) : k = 0 \/ ~NoWordBreak(s, k)}
        endOf(k) == IF \E j \in starts : j > k
                    THEN CHOOSE j \in starts : j > k /\ \A i \in starts : i > k => j <= i
                    ELSE Len(s)
    IN {[off |-> ByteOffset(s, k), text |-> SubSeq(s, k + 1, endOf(k))] : k \in starts}

\* pair.1.chars().next().map_or(true, |c| !c.is_whitespace())
StartsWord(pair) == pair.text = <<>> \/ ~is_whitespace(pair.text[1])

SetMin(S) == CHOOSE m \in S : \A n \in S : m <= n

SetMax(S) == CHOOSE m \in S : \A n \in S : m >= n

\* ------------------------------------------------------------------------
\* buffer/navigation.rs
\* ------------------------------------------------------------------------

next_scalar_value(index, string) ==
    LET k == CharsBefore(string, index)
    IN IF k + 1 < Len(string) THEN ByteOffset(string, k + 1) ELSE str_len(string)

previous_scalar_value(index, string) ==
    LET k == CharsBefore(string, index)
    IN IF k > 0 THEN ByteOffset(string, k - 1) ELSE 0

\* Mutant of next_word: whitespace segments count as words
next_word_any_segment(pivot, string) ==
    LET end == str_len(string)
        found == {pair.off : pair \in {p \in split_word_bound_indices(string) :
                                          p.off > pivot}}
    IN IF pivot = end THEN pivot
       ELSE IF found = {} THEN str_len(string) ELSE SetMin(found)

next_word(pivot, string) ==
    LET end == str_len(string)
        found == {pair.off : pair \in {p \in split_word_bound_indices(string) :
                                          p.off > pivot /\ StartsWord(p)}}
    IN IF pivot = end THEN pivot
       ELSE IF found = {} THEN str_len(string) ELSE SetMin(found)

\* Mutant of previous_word: whitespace segments count as words
previous_word_any_segment(pivot, string) ==
    LET found == {pair.off : pair \in {p \in split_word_bound_indices(string) :
                                          p.off < pivot}}
    IN IF pivot = 0 THEN pivot
       ELSE IF found = {} THEN 0 ELSE SetMax(found)

previous_word(pivot, string) ==
    LET found == {pair.off : pair \in {p \in split_word_bound_indices(string) :
                                          p.off < pivot /\ StartsWord(p)}}
    IN IF pivot = 0 THEN pivot
       ELSE IF found = {} THEN 0 ELSE SetMax(found)

previous_word_end_at_word_start(pivot, string) ==
    LET found == {pair.off :
                    pair \in {p \in split_word_bound_indices(string) :
                                 p.off + str_len(p.text) < pivot /\ StartsWord(p)}}
    IN IF pivot = 0 THEN pivot
       ELSE IF found = {} THEN 0 ELSE SetMax(found)

previous_word_end(pivot, string) ==
    LET found == {pair.off + str_len(pair.text) :
                    pair \in {p \in split_word_bound_indices(string) :
                                 p.off + str_len(p.text) < pivot /\ StartsWord(p)}}
    IN IF pivot = 0 THEN pivot
       ELSE IF found = {} THEN 0 ELSE SetMax(found)

\* ------------------------------------------------------------------------
\* Actions' vocabulary (actions.rs)
\* ------------------------------------------------------------------------

Ranges == {"Line", "Word", "Single"}

Directions == {"Forward", "Backward"}

Relative(range, direction) == <<"Relative", range, direction>>

WholeWord == <<"WholeWord">>

WholeLine == <<"WholeLine">>

Scopes == {Relative(r, d) : r \in Ranges, d \in Directions} \cup {WholeWord, WholeLine}

\* ------------------------------------------------------------------------
\* String editing primitives of the standard library, by byte offset
\* ------------------------------------------------------------------------

\* Mutant of insert_str: s goes to the end of the string
insert_str_appends(string, idx, s) == string \o s

\* String::insert_str (String::insert for a one-scalar s)
insert_str(string, idx, s) ==
    LET k == CharsBefore(string, idx)
    IN SubSeq(string, 1, k) \o s \o SubSeq(string, k + 1, Len(string))

\* String::drain(from..to), keeping what is left
drain(string, from, to) ==
    SubSeq(string, 1, CharsBefore(string, from))
        \o SubSeq(string, CharsBefore(string, to) + 1, Len(string))

\* &string[from..to]
slice(string, from, to) ==
    SubSeq(string, CharsBefore(string, from) + 1, CharsBefore(string, to))

\* ------------------------------------------------------------------------
\* buffer/mod.rs: Buffer
\* ------------------------------------------------------------------------

\* Buffer::new / Buffer::default
Buffer_new == [string |-> <<>>, cursor |-> 0]

\* impl From<S> for Buffer
Buffer_from(string) == [string |-> string, cursor |-> str_len(string)]

\* Mutant of set_cursor: every index up to the length is accepted
set_cursor_within_len(b, cursor) ==
    IF cursor <= str_len(b.string)
    THEN [ok |-> TRUE, buffer |-> [b EXCEPT !.cursor = cursor]]
    ELSE [ok |-> FALSE, buffer |-> b]

\* Buffer::set_cursor: Ok(buffer) or Err(InvalidIndex)
set_cursor(b, cursor) ==
    IF is_char_boundary(b.string, cursor)
    THEN [ok |-> TRUE, buffer |-> [b EXCEPT !.cursor = cursor]]
    ELSE [ok |-> FALSE, buffer |-> b]

\* Buffer::new_with_cursor: Ok(buffer) or Err(InvalidIndex)
new_with_cursor(string, cursor) == set_cursor(Buffer_from(string), cursor)

go_to_end(b) == [b EXCEPT !.cursor = str_len(b.string)]

clear(b) == [string |-> <<>>, cursor |-> 0]

\* Mutant of write: the cursor advances by one byte whatever the scalar
write_advances_one_byte(b, c) ==
    [string |-> insert_str(b.string, b.cursor, <<c>>),
     cursor |-> b.cursor + 1]

write(b, c) ==
    [string |-> insert_str(b.string, b.cursor, <<c>>),
     cursor |-> b.cursor + len_utf8(c)]

write_str(b, string) ==
    [string |-> insert_str(b.string, b.cursor, string),
     cursor |-> b.cursor + str_len(string)]

\* string.chars().next().unwrap() of write_range panics on an empty string
write_range_panics(string, range) == range = "Single" /\ string = <<>>

\* Mutant of write_range: Word writes the whole string
write_range_whole(b, string, range) ==
    CASE range = "Line" -> write_str(b, string)
      [] range = "Word" -> write_str(b, string)
      [] range = "Single" -> IF string = <<>> THEN b ELSE write(b, string[1])

write_range(b, string, range) ==
    CASE range = "Line" -> write_str(b, string)
      [] range = "Word" -> write_str(b, slice(string, 0, next_word(0, string)))
      [] range = "Single" -> IF string = <<>> THEN b ELSE write(b, string[1])

\* The WholeWord arm removing the whole span, whitespace included
delete_whole_word_keeps_no_space(b) ==
    LET start0 == previous_word_end(b.cursor, b.string)
        end0 == next_word(b.cursor, b.string)
        ks == CharsBefore(b.string, start0)
        ke == CharsBefore(b.string, end0)
        spaceAtStart == ks < Len(b.string) /\ is_whitespace(b.string[ks + 1])
        spaceAtEnd == ke > 0 /\ is_whitespace(b.string[ke])
        start == start0
        end == end0
    IN [string |-> drain(b.string, start, end), cursor |-> start]


\* The WholeWord arm removing from the cursor on
delete_whole_word_from_cursor(b) ==
    LET start0 == b.cursor
        end0 == next_word(b.cursor, b.string)
        ks == CharsBefore(b.string, start0)
        ke == CharsBefore(b.string, end0)
        spaceAtStart == ks < Len(b.string) /\ is_whitespace(b.string[ks + 1])
        spaceAtEnd == ke > 0 /\ is_whitespace(b.string[ke])
        start == IF start0 > 0 /\ spaceAtStart
                 THEN start0 + len_utf8(b.string[ks + 1]) ELSE start0
        end == IF start0 > 0 /\ ~spaceAtStart /\ spaceAtEnd
               THEN end0 - len_utf8(b.string[ke]) ELSE end0
    IN [string |-> drain(b.string, start, end), cursor |-> start]


\* The WholeWord arm of Buffer::delete
delete_whole_word(b) ==
    LET start0 == previous_word_end(b.cursor, b.string)
        end0 == next_word(b.cursor, b.string)
        ks == CharsBefore(b.string, start0)
        ke == CharsBefore(b.string, end0)
        spaceAtStart == ks < Len(b.string) /\ is_whitespace(b.string[ks + 1])
        spaceAtEnd == ke > 0 /\ is_whitespace(b.string[ke])
        start == IF start0 > 0 /\ spaceAtStart
                 THEN start0 + len_utf8(b.string[ks + 1]) ELSE start0
        end == IF start0 > 0 /\ ~spaceAtStart /\ spaceAtEnd
               THEN end0 - len_utf8(b.string[ke]) ELSE end0
    IN [string |-> drain(b.string, start, end), cursor |-> start]

\* Buffer::delete whose Single Forward arm stops one byte short of the end
delete_spares_last_byte(b, scope) ==
    LET k == CharsBefore(b.string, b.cursor) IN
    CASE scope = Relative("Single", "Backward") ->
            IF b.cursor > 0 /\ k > 0
            THEN [string |-> SubSeq(b.string, 1, k - 1) \o SubSeq(b.string, k + 1, Len(b.string)),
                  cursor |-> ByteOffset(b.string, k - 1)]
            ELSE b
      [] scope = Relative("Single", "Forward") ->
            IF b.cursor + 1 < str_len(b.string)
            THEN [b EXCEPT !.string = SubSeq(b.string, 1, k) \o SubSeq(b.string, k + 2, Len(b.string))]
            ELSE b
      [] scope = Relative("Word", "Backward") ->
            LET index == previous_word(b.cursor, b.string)
            IN [string |-> drain(b.string, index, b.cursor), cursor |-> index]
      [] scope = Relative("Word", "Forward") ->
            LET index == next_word(b.cursor, b.string)
            IN [b EXCEPT !.string = drain(b.string, b.cursor, index)]
      [] scope = Relative("Line", "Backward") ->
            [string |-> drain(b.string, 0, b.cursor), cursor |-> 0]
      [] scope = Relative("Line", "Forward") ->
            [b EXCEPT !.string = drain(b.string, b.cursor, str_len(b.string))]
      [] scope = WholeWord -> delete_whole_word(b)
      [] scope = WholeLine -> clear(b)

delete(b, scope) ==
    LET k == CharsBefore(b.string, b.cursor) IN
    CASE scope = Relative("Single", "Backward") ->
            IF b.cursor > 0 /\ k > 0
            THEN [string |-> SubSeq(b.string, 1, k - 1) \o SubSeq(b.string, k + 1, Len(b.string)),
                  cursor |-> ByteOffset(b.string, k - 1)]
            ELSE b
      [] scope = Relative("Single", "Forward") ->
            IF b.cursor < str_len(b.string)
            THEN [b EXCEPT !.string = SubSeq(b.string, 1, k) \o SubSeq(b.string, k + 2, Len(b.string))]
            ELSE b
      [] scope = Relative("Word", "Backward") ->
            LET index == previous_word(b.cursor, b.string)
            IN [string |-> drain(b.string, index, b.cursor), cursor |-> index]
      [] scope = Relative("Word", "Forward") ->
            LET index == next_word(b.cursor, b.string)
            IN [b EXCEPT !.string = drain(b.string, b.cursor, index)]
      [] scope = Relative("Line", "Backward") ->
            [string |-> drain(b.string, 0, b.cursor), cursor |-> 0]
      [] scope = Relative("Line", "Forward") ->
            [b EXCEPT !.string = drain(b.string, b.cursor, str_len(b.string))]
      [] scope = WholeWord -> delete_whole_word(b)
      [] scope = WholeLine -> clear(b)

\* Mutant of move_cursor: (Line, Forward) from the end wraps to the start
move_cursor_wraps(b, range, direction) ==
    CASE range = "Single" /\ direction = "Backward" ->
            [b EXCEPT !.cursor = previous_scalar_value(b.cursor, b.string)]
      [] range = "Single" /\ direction = "Forward" ->
            [b EXCEPT !.cursor = next_scalar_value(b.cursor, b.string)]
      [] range = "Word" /\ direction = "Backward" ->
            [b EXCEPT !.cursor = previous_word(b.cursor, b.string)]
      [] range = "Word" /\ direction = "Forward" ->
            [b EXCEPT !.cursor = next_word(b.cursor, b.string)]
      [] range = "Line" /\ direction = "Backward" ->
            [b EXCEPT !.cursor = 0]
      [] range = "Line" /\ direction = "Forward" ->
            IF b.cursor < str_len(b.string) THEN go_to_end(b) ELSE [b EXCEPT !.cursor = 0]

move_cursor(b, range, direction) ==
    CASE range = "Single" /\ direction = "Backward" ->
            [b EXCEPT !.cursor = previous_scalar_value(b.cursor, b.string)]
      [] range = "Single" /\ direction = "Forward" ->
            [b EXCEPT !.cursor = next_scalar_value(b.cursor, b.string)]
      [] range = "Word" /\ direction = "Backward" ->
            [b EXCEPT !.cursor = previous_word(b.cursor, b.string)]
      [] range = "Word" /\ direction = "Forward" ->
            [b EXCEPT !.cursor = next_word(b.cursor, b.string)]
      [] range = "Line" /\ direction = "Backward" ->
            [b EXCEPT !.cursor = 0]
      [] range = "Line" /\ direction = "Forward" ->
            IF b.cursor < str_len(b.string) THEN go_to_end(b) ELSE b


\* ------------------------------------------------------------------------
\* Grapheme clusters (unicode_segmentation::graphemes(s, true).count())
\* ------------------------------------------------------------------------

RECURSIVE graphemes_count(_)
\* Two consecutive regional indicators are one cluster; every other scalar
\* of the alphabet is a cluster of its own
graphemes_count(s) ==
    IF s = <<>> THEN 0
    ELSE IF Len(s) >= 2 /\ s[1] = Flag /\ s[2] = Flag
         THEN 1 + graphemes_count(SubSeq(s, 3, Len(s)))
         ELSE 1 + graphemes_count(Tail(s))

\* ------------------------------------------------------------------------
\* prompt/navigation.rs: next_word over a slice of scalars (indices count
\* scalars); Context::complete applies it to the inline completion
\* ------------------------------------------------------------------------

RECURSIVE skip_word(_, _)
\* while index < end && !string[index].is_whitespace() { index += 1 }
skip_word(index, string) ==
    IF index < Len(string) /\ ~is_whitespace(string[index + 1])
    THEN skip_word(index + 1, string) ELSE index

RECURSIVE skip_whitespace(_, _)
\* while index < end && string[index].is_whitespace() { index += 1 }
skip_whitespace(index, string) ==
    IF index < Len(string) /\ is_whitespace(string[index + 1])
    THEN skip_whitespace(index + 1, string) ELSE index

prompt_next_word(pivot, string) ==
    IF pivot = Len(string) THEN pivot
    ELSE skip_whitespace(skip_word(pivot, string), string)

\* ------------------------------------------------------------------------
\* completion.rs: the list completer and suggester (Basic)
\* ------------------------------------------------------------------------

starts_with(string, prefix) ==
    Len(prefix) <= Len(string) /\ SubSeq(string, 1, Len(prefix)) = prefix

\* Mutant of complete_for: the last candidate that matches is taken
complete_for_last_match(candidates, b) ==
    LET matching == {i \in 1..Len(candidates) : starts_with(candidates[i], b.string)}
    IN IF b.string = <<>> \/ matching = {} THEN None
       ELSE LET last == candidates[SetMax(matching)]
            IN Some(SubSeq(last, Len(b.string) + 1, Len(last)))

\* impl Completer for Basic
complete_for(candidates, b) ==
    LET matching == {i \in 1..Len(candidates) : starts_with(candidates[i], b.string)}
    IN IF b.string = <<>> \/ matching = {} THEN None
       ELSE LET first == candidates[SetMin(matching)]
            IN Some(SubSeq(first, Len(b.string) + 1, Len(first)))

\* impl Suggester for Basic
suggest_for(options, b) == options

\* ------------------------------------------------------------------------
\* actions.rs: events, actions and their resolution
\* ------------------------------------------------------------------------

Write(c) == <<"Write", c>>

Delete(scope) == <<"Delete", scope>>

Move(range, direction) == <<"Move", range, direction>>

Suggest(direction) == <<"Suggest", direction>>

Complete(range) == <<"Complete", range>>

Accept == <<"Accept">>

Cancel == <<"Cancel">>

NoOp == <<"NoOp">>

\* crossterm's KeyEvent: a key code (with its scalar for Char, its number
\* for a function key) and the set of modifiers held
Key(code) == [code |-> code, c |-> "", n |-> 0, modifiers |-> {}]

Char(c, modifiers) == [code |-> "Char", c |-> c, n |-> 0, modifiers |-> modifiers]

F(n) == [code |-> "F", c |-> "", n |-> n, modifiers |-> {}]

\* event.modifiers == KeyModifiers::CONTROL
control_pressed(event) == event.modifiers = {"CONTROL"}

\* event.modifiers == KeyModifiers::ALT
alt_pressed(event) == event.modifiers = {"ALT"}

\* complete_if_at_end_else_move completing by the range of the key
complete_if_at_end_else_move_keeps_range(b, range) ==
    IF b.cursor = str_len(b.string)
    THEN Complete(range)
    ELSE Move(range, "Forward")

complete_if_at_end_else_move(b, range) ==
    IF b.cursor = str_len(b.string)
    THEN IF range = "Word" THEN Complete("Word") ELSE Complete("Line")
    ELSE Move(range, "Forward")

default_action(event, b) ==
    CASE event.code = "Enter" -> Accept
      [] event.code = "Esc" -> Cancel
      [] event.code = "Tab" -> Suggest("Forward")
      [] event.code = "BackTab" -> Suggest("Backward")
      [] event.code = "Backspace" -> Delete(Relative("Single", "Backward"))
      [] event.code = "Delete" -> Delete(Relative("Single", "Forward"))
      [] event.code = "Right" -> complete_if_at_end_else_move(b, "Single")
      [] event.code = "Left" -> Move("Single", "Backward")
      [] event.code = "Home" -> Move("Line", "Backward")
      [] event.code = "End" -> complete_if_at_end_else_move(b, "Line")
      [] event.code = "Char" ->
            IF control_pressed(event) THEN
                CASE event.c \in {"m", "d"} -> Accept
                  [] event.c = "c" -> Cancel
                  [] event.c = "b" -> Move("Single", "Backward")
                  [] event.c = "f" -> complete_if_at_end_else_move(b, "Single")
                  [] event.c = "a" -> Move("Line", "Backward")
                  [] event.c = "e" -> complete_if_at_end_else_move(b, "Line")
                  [] event.c = "j" -> Delete(Relative("Word", "Backward"))
                  [] event.c = "k" -> Delete(Relative("Word", "Forward"))
                  [] event.c = "h" -> Delete(Relative("Line", "Backward"))
                  [] event.c = "l" -> Delete(Relative("Line", "Forward"))
                  [] event.c = "w" -> Delete(WholeWord)
                  [] event.c = "u" -> Delete(WholeLine)
                  [] OTHER -> NoOp
            ELSE IF alt_pressed(event) THEN
                CASE event.c = "b" -> Move("Word", "Backward")
                  [] event.c = "f" -> complete_if_at_end_else_move(b, "Word")
                  [] OTHER -> NoOp
            ELSE Write(event.c)
      [] OTHER -> NoOp

\* impl Overrider for KeyBindings: the map's entry for the event, if any
override_for(bindings, event, b) ==
    IF event \in DOMAIN bindings THEN Some(bindings[event]) ELSE None

\* action_for consulting the override only where the default is NoOp
action_for_default_first(o, event, b) ==
    LET overridden == IF IsSome(o) THEN override_for(Unwrap(o), event, b) ELSE None
    IN IF default_action(event, b) /= NoOp \/ overridden = None
       THEN default_action(event, b) ELSE Unwrap(overridden)

action_for(o, event, b) ==
    LET overridden == IF IsSome(o) THEN override_for(Unwrap(o), event, b) ELSE None
    IN IF IsSome(overridden) THEN Unwrap(overridden) ELSE default_action(event, b)

\* ------------------------------------------------------------------------
\* Inputs of one read_line call
\* ------------------------------------------------------------------------

\* Candidate list handed to the list completer
Candidates == << <<"a", " ", "x">>, <<"a", "x">>, <<"x", "a">> >>

\* Option lists a list suggester may hold (one empty, one with a single
\* option, one with two)
OptionLists == { <<>>, << <<"x">> >>, << <<"x">>, <<"a", Flag>> >> }

\* Actions the key bindings used as overrider give to the function keys
BoundActions ==
    << Complete("Line"), Complete("Word"), Complete("Single"),
       Move("Single", "Forward"), Move("Word", "Forward"), Move("Line", "Forward"),
       Suggest("Forward") >>

\* A KeyBindings map: Tab writes a literal tab, the function keys carry
\* BoundActions
Bindings ==
    [e \in {Key("Tab")} \cup {F(i) : i \in 1..Len(BoundActions)} |->
        IF e.code = "Tab" THEN Write("\t") ELSE BoundActions[e.n]]

\* A KeyBindings map that turns Enter and Ctrl-C into NoOp
SuppressingBindings ==
    [e \in {Key("Enter"), Char("c", {"CONTROL"})} |-> NoOp]

\* Scalars the keyboard can type
TypedScalars == {"a", " ", Flag}

\* Letters that carry a default binding with Ctrl or Alt, and one that does not
BoundLetters == {"m", "d", "c", "b", "f", "a", "e", "j", "k", "h", "l", "w", "u", "x"}

KeyEvents ==
    {Key(code) : code \in {"Enter", "Esc", "Tab", "BackTab", "Backspace", "Delete",
                           "Right", "Left", "Home", "End"}}
    \cup {F(i) : i \in 1..Len(BoundActions)}
    \cup {Char(c, {"CONTROL"}) : c \in BoundLetters}
    \cup {Char(c, {"ALT"}) : c \in {"b", "f", "x"}}
    \cup {Char(c, {}) : c \in TypedScalars}
    \cup {Char("a", m) : m \in {{"SHIFT"}, {"CONTROL", "ALT"}, {"CONTROL", "SHIFT"}}}

\* ------------------------------------------------------------------------
\* State
\* ------------------------------------------------------------------------

VARIABLES
    buffer,         \* Context::buffer, a Buffer
    completion,     \* Context::completion, None or Some(text)
    suggestions,    \* Context::suggestions, None or Some([index, options])
    completer,      \* None or Some(candidates)
    suggester,      \* None or Some(options)
    overrider,      \* None or Some(key bindings)
    writer,         \* the writer's printed_length and cursor_offset
    pc,             \* "start", "read" (blocked in event::read), "done"; outside
                    \* read_line the unit under test: "buffer", "keys", "words", "ops",
                    \* "cursor"
    outcome,        \* None or Some(Outcome) once read_line returned
    panicked,       \* a handler panicked
    action,         \* the action the last event resolved to (None before)
    redraws,        \* calls of the writer's print/print_suggestions for the last event
    drawn,          \* what the last such call drew
    original,       \* the buffer at the moment the open overlay was opened (in OpsSpec,
                    \* the buffer the operations started from)
    event,          \* the key event action_for last resolved on its own (None in read_line)
    builder,        \* the builder chain, innermost layer first (empty in read_line)
    stdout,         \* the call of rewind_cursor / fast_forward_cursor in progress and
                    \* the cursor moves it queued (empty outside CursorSpec)
    raw_mode,       \* the terminal is in raw mode
    terminal        \* the screen the writer draws on: its cells and its cursor
                    \* (empty outside TermSpec)

vars == <<buffer, completion, suggestions, completer, suggester, overrider, writer,
          pc, outcome, panicked, action, redraws, drawn, original, event, builder, stdout,
          raw_mode, terminal>>

\* ------------------------------------------------------------------------
\* prompt/writer.rs: the two counters of RuclineWriter
\* ------------------------------------------------------------------------

\* RuclineWriter::new: erase_on_drop holds the prompt's grapheme count when
\* the prompt is to be erased
RuclineWriter_new(erase_on_drop, prompt) ==
    [prompt |-> prompt,
     erase_on_drop |-> IF erase_on_drop
                       THEN IF IsSome(prompt) THEN Some(graphemes_count(Unwrap(prompt)))
                                              ELSE Some(0)
                       ELSE None,
     printed_length |-> 0,
     cursor_offset |-> 0]

\* The screen before the first call of print
NothingDrawn ==
    [kind |-> "none", text |-> <<>>, cursor |-> 0, completion |-> None,
     index |-> 0, options |-> <<>>]

\* Mutant of writer_print: the cursor offset is not recomputed
writer_print_keeps_offset(ctx, b, compl) ==
    LET printed == graphemes_count(b.string)
    IN [ctx EXCEPT
          !.writer = [@ EXCEPT !.printed_length = printed],
          !.drawn = [kind |-> "print", text |-> b.string, cursor |-> b.cursor,
                     completion |-> compl, index |-> 0, options |-> <<>>],
          !.redraws = @ + 1]

\* Writer::print, on the context record
writer_print(ctx, b, compl) ==
    LET printed == graphemes_count(b.string)
    IN [ctx EXCEPT
          !.writer = [@ EXCEPT
                        !.printed_length = printed,
                        !.cursor_offset =
                            printed - graphemes_count(slice(b.string, 0, b.cursor))],
          !.drawn = [kind |-> "print", text |-> b.string, cursor |-> b.cursor,
                     completion |-> compl, index |-> 0, options |-> <<>>],
          !.redraws = @ + 1]

\* Writer::print_suggestions, on the context record
writer_print_suggestions(ctx, selected_index, options) ==
    LET shown == options[selected_index + 1].string
    IN [ctx EXCEPT
          !.writer = [@ EXCEPT !.printed_length = graphemes_count(shown),
                               !.cursor_offset = 0],
          !.drawn = [kind |-> "suggestions", text |-> shown, cursor |-> str_len(shown),
                     completion |-> None, index |-> selected_index,
                     options |-> [i \in 1..Len(options) |-> options[i].string]],
          !.redraws = @ + 1]

\* ------------------------------------------------------------------------
\* prompt/context.rs: Suggestions
\* ------------------------------------------------------------------------

\* Suggestions::new ignoring the direction
Suggestions_new_always_first(options, direction) ==
    [index |-> Some(0),
     options |-> [i \in 1..Len(options) |-> Buffer_from(options[i])]]

\* Mutant of Suggestions_new: only the first option is kept
Suggestions_new_first_only(options, direction) ==
    [index |-> Some(0), options |-> <<Buffer_from(options[1])>>]

Suggestions_new(options, direction) ==
    [index |-> Some(IF direction = "Forward" THEN 0 ELSE Len(options) - 1),
     options |-> [i \in 1..Len(options) |-> Buffer_from(options[i])]]

cycle(s, direction) ==
    LET last_index == Len(s.options) - 1
    IN [s EXCEPT !.index =
          CASE direction = "Forward" /\ s.index = None -> Some(0)
            [] direction = "Forward" /\ IsSome(s.index) /\ Unwrap(s.index) < last_index ->
                  Some(Unwrap(s.index) + 1)
            [] direction = "Forward" /\ IsSome(s.index) /\ Unwrap(s.index) >= last_index -> None
            [] direction = "Backward" /\ s.index = None -> Some(last_index)
            [] direction = "Backward" /\ s.index = Some(0) -> None
            [] OTHER -> Some(Unwrap(s.index) - 1)]

\* Suggestions::take
take(s) == IF IsSome(s.index) THEN Some(s.options[Unwrap(s.index) + 1]) ELSE None

\* ------------------------------------------------------------------------
\* prompt/context.rs: Context.  The handlers are functions of a record of
\* the fields they read and write.
\* ------------------------------------------------------------------------

\* The context as the handler of the next event finds it
Context ==
    [buffer |-> buffer, completion |-> completion, suggestions |-> suggestions,
     writer |-> writer, drawn |-> drawn, redraws |-> 0, panicked |-> FALSE]

\* Context::new followed by nothing: empty buffer, no completion, no overlay,
\* a writer without a prompt that is not erased
Context_new ==
    [buffer |-> Buffer_new, completion |-> None, suggestions |-> None,
     writer |-> RuclineWriter_new(FALSE, None), drawn |-> NothingDrawn, redraws |-> 0,
     panicked |-> FALSE]

try_take_suggestion(ctx) ==
    LET taken == IF IsSome(ctx.suggestions) THEN take(Unwrap(ctx.suggestions)) ELSE None
    IN [ctx EXCEPT !.suggestions = None,
                   !.buffer = IF IsSome(taken) THEN Unwrap(taken) ELSE @]

update_completion(ctx) ==
    IF IsSome(completer)
    THEN [ctx EXCEPT !.completion = complete_for(Unwrap(completer), ctx.buffer)]
    ELSE ctx

Context_print(ctx) == writer_print(ctx, ctx.buffer, ctx.completion)

Context_write(ctx, c) ==
    LET taken == try_take_suggestion(ctx)
        written == [taken EXCEPT !.buffer = write(@, c)]
    IN Context_print(update_completion(written))

Context_delete(ctx, scope) ==
    LET taken == try_take_suggestion(ctx)
        deleted == [taken EXCEPT !.buffer = delete(@, scope)]
    IN Context_print(update_completion(deleted))

\* Context::complete drawing also when there is no completion
Context_complete_always_prints(ctx, range) ==
    LET atEnd == [ctx EXCEPT !.buffer = go_to_end(@)]
        compl == Unwrap(ctx.completion)
    IN IF IsSome(ctx.completion)
       THEN CASE range = "Line" ->
                    Context_print(update_completion(
                        [atEnd EXCEPT !.buffer = write_str(@, compl)]))
              [] range = "Word" ->
                    LET index == prompt_next_word(0, compl)
                    IN Context_print(update_completion(
                          [atEnd EXCEPT !.buffer = write_str(@, SubSeq(compl, 1, index))]))
              [] range = "Single" ->
                    IF compl = <<>>
                    THEN [atEnd EXCEPT !.panicked = TRUE]
                    ELSE Context_print(update_completion(
                            [atEnd EXCEPT !.buffer = write(@, compl[1])]))
       ELSE Context_print(atEnd)

Context_complete(ctx, range) ==
    LET atEnd == [ctx EXCEPT !.buffer = go_to_end(@)]
        compl == Unwrap(ctx.completion)
    IN IF IsSome(ctx.completion)
       THEN CASE range = "Line" ->
                    Context_print(update_completion(
                        [atEnd EXCEPT !.buffer = write_str(@, compl)]))
              [] range = "Word" ->
                    LET index == prompt_next_word(0, compl)
                    IN Context_print(update_completion(
                          [atEnd EXCEPT !.buffer = write_str(@, SubSeq(compl, 1, index))]))
              [] range = "Single" ->
                    IF compl = <<>>
                    THEN [atEnd EXCEPT !.panicked = TRUE]
                    ELSE Context_print(update_completion(
                            [atEnd EXCEPT !.buffer = write(@, compl[1])]))
       ELSE atEnd

\* Buffer::at_end
at_end(b) == b.cursor = str_len(b.string)

\* Mutant of Context_move_cursor: every Forward move completes
Context_move_cursor_completes_anywhere(ctx, range, direction) ==
    LET taken == try_take_suggestion(ctx)
    IN IF direction = "Forward"
       THEN Context_complete(taken, range)
       ELSE Context_print([taken EXCEPT !.buffer = move_cursor(@, range, direction)])

Context_move_cursor(ctx, range, direction) ==
    LET taken == try_take_suggestion(ctx)
    IN IF at_end(taken.buffer) /\ direction = "Forward"
       THEN Context_complete(taken, range)
       ELSE Context_print([taken EXCEPT !.buffer = move_cursor(@, range, direction)])

\* Context::suggest dropping the completion when there is nothing to suggest
Context_suggest_drops_completion(ctx, direction) ==
    IF IsSome(suggester)
    THEN IF IsSome(ctx.suggestions)
         THEN LET cycled == cycle(Unwrap(ctx.suggestions), direction)
                  next == [ctx EXCEPT !.suggestions = Some(cycled)]
              IN IF IsSome(cycled.index)
                 THEN writer_print_suggestions(next, Unwrap(cycled.index), cycled.options)
                 ELSE Context_print(next)
         ELSE LET options == suggest_for(Unwrap(suggester), ctx.buffer)
              IN IF options /= <<>>
                 THEN LET opened == Suggestions_new(options, direction)
                      IN writer_print_suggestions([ctx EXCEPT !.suggestions = Some(opened)],
                                                  Unwrap(opened.index), opened.options)
                 ELSE Context_print([ctx EXCEPT !.completion = None])
    ELSE Context_print([ctx EXCEPT !.completion = None])

Context_suggest(ctx, direction) ==
    IF IsSome(suggester)
    THEN IF IsSome(ctx.suggestions)
         THEN LET cycled == cycle(Unwrap(ctx.suggestions), direction)
                  next == [ctx EXCEPT !.suggestions = Some(cycled)]
              IN IF IsSome(cycled.index)
                 THEN writer_print_suggestions(next, Unwrap(cycled.index), cycled.options)
                 ELSE Context_print(next)
         ELSE LET options == suggest_for(Unwrap(suggester), ctx.buffer)
              IN IF options /= <<>>
                 THEN LET opened == Suggestions_new(options, direction)
                      IN writer_print_suggestions([ctx EXCEPT !.suggestions = Some(opened)],
                                                  Unwrap(opened.index), opened.options)
                 ELSE Context_print(ctx)
    ELSE Context_print(ctx)

is_suggesting(ctx) == IsSome(ctx.suggestions)

cancel_suggestion(ctx) == Context_print([ctx EXCEPT !.suggestions = None])

\* Context::buffer_as_string: the context after the call; its buffer's text
\* is the string returned
buffer_as_string(ctx) == try_take_suggestion(ctx)

\* impl From<Context> for Buffer (context.into()): the session's buffer
Context_into(ctx) == ctx.buffer

\* ------------------------------------------------------------------------
\* prompt/mod.rs: read_line
\* ------------------------------------------------------------------------

Init ==
    /\ buffer = Context_new.buffer
    /\ completion = Context_new.completion
    /\ suggestions = Context_new.suggestions
    /\ writer = Context_new.writer
    /\ drawn = Context_new.drawn
    /\ completer \in {None, Some(Candidates)}
    /\ suggester \in {None} \cup {Some(o) : o \in OptionLists}
    /\ overrider \in {None, Some(Bindings)}
    /\ pc = "start"
    /\ outcome = None
    /\ panicked = FALSE
    /\ action = None
    /\ redraws = 0
    /\ original = None
    /\ event = None
    /\ builder = <<>>
    /\ stdout = <<>>
    /\ raw_mode = FALSE
    /\ terminal = <<>>

\* match action_for(overrider, e, &context): the actions the next key event
\* can resolve to
ResolvedActions == {action_for(overrider, e, buffer) : e \in KeyEvents}

\* Writer::begin: crossterm::terminal::enable_raw_mode()
begin_raw_mode(raw) == TRUE

\* Mutant of drop_raw_mode: the teardown leaves the terminal mode as it is
drop_keeps_raw_mode(raw) == raw

\* impl Drop for RuclineWriter: crossterm::terminal::disable_raw_mode()
drop_raw_mode(raw) == FALSE

\* The context r is what the loop goes on with after an event
Kept(r, a) ==
    /\ buffer' = r.buffer
    /\ completion' = r.completion
    /\ suggestions' = r.suggestions
    /\ writer' = r.writer
    /\ drawn' = r.drawn
    /\ redraws' = r.redraws
    /\ panicked' = r.panicked
    /\ action' = a
    /\ original' = IF r.suggestions = None THEN None
                   ELSE IF suggestions = None THEN Some(buffer) ELSE original
    /\ pc' = IF r.panicked THEN "panic" ELSE "read"
    /\ UNCHANGED <<completer, suggester, overrider, outcome, event, builder, stdout,
                   terminal>>

\* The handler of an event left the context r; the loop reads the next event
\* (a panic unwinds read_line and drops the context with its writer)
Handled(r, a) ==
    /\ Kept(r, a)
    /\ raw_mode' = IF r.panicked THEN drop_raw_mode(raw_mode) ELSE raw_mode

\* read_line returned: the context is consumed and its writer dropped
Returned(r, a, result) ==
    /\ buffer' = r.buffer
    /\ completion' = r.completion
    /\ suggestions' = r.suggestions
    /\ writer' = r.writer
    /\ drawn' = r.drawn
    /\ redraws' = r.redraws
    /\ panicked' = r.panicked
    /\ action' = a
    /\ original' = IF r.suggestions = None THEN None ELSE original
    /\ outcome' = Some(result)
    /\ pc' = "done"
    /\ raw_mode' = drop_raw_mode(raw_mode)
    /\ UNCHANGED <<completer, suggester, overrider, event, builder, stdout, terminal>>

\* context.print()? before the loop
Begin ==
    /\ pc = "start"
    /\ Kept([Context_print(Context) EXCEPT !.redraws = 0], None)
    /\ raw_mode' = begin_raw_mode(raw_mode)

\* A `?` in read_line took the error branch: the error is returned and the
\* context is dropped with whatever its handler had done to it (the variables
\* keep the context the event found)
Failed(error) == Returned(Context, None, <<"Err", error>>)

\* Context::new(..)? or context.print()? failed before the loop was entered
BeginFails ==
    /\ pc = "start"
    /\ Failed("terminal sink")

\* Action::Write(c) => context.write(c)?
OnWrite ==
    /\ pc = "read"
    /\ \E a \in ResolvedActions :
          /\ a[1] = "Write"
          /\ Len(try_take_suggestion(Context).buffer.string) < MaxTyped
          /\ Handled(Context_write(Context, a[2]), a)

\* Action::Delete(scope) => context.delete(scope)?
OnDelete ==
    /\ pc = "read"
    /\ \E a \in ResolvedActions :
          /\ a[1] = "Delete"
          /\ Handled(Context_delete(Context, a[2]), a)

\* Action::Move(range, direction) => context.move_cursor(range, direction)?
OnMove ==
    /\ pc = "read"
    /\ \E a \in ResolvedActions :
          /\ a[1] = "Move"
          /\ Handled(Context_move_cursor(Context, a[2], a[3]), a)

\* Action::Complete(range) => context.complete(range)?
OnComplete ==
    /\ pc = "read"
    /\ \E a \in ResolvedActions :
          /\ a[1] = "Complete"
          /\ Handled(Context_complete(Context, a[2]), a)

\* Action::Suggest(direction) => context.suggest(direction)?
OnSuggest ==
    /\ pc = "read"
    /\ \E a \in ResolvedActions :
          /\ a[1] = "Suggest"
          /\ Handled(Context_suggest(Context, a[2]), a)

\* Action::Noop => continue
OnNoOp ==
    /\ pc = "read"
    /\ \E a \in ResolvedActions :
          /\ a = NoOp
          /\ Handled(Context, a)

\* Action::Cancel returning a buffer rebuilt from the text alone
OnCancel_from_text ==
    /\ pc = "read"
    /\ \E a \in ResolvedActions :
          /\ a = Cancel
          /\ IF is_suggesting(Context)
             THEN Handled(cancel_suggestion(Context), a)
             ELSE Returned(Context, a,
                           <<"Canceled", Buffer_from(Context_into(Context).string)>>)

\* Action::Cancel: close the overlay if one is open, else return Canceled
OnCancel ==
    /\ pc = "read"
    /\ \E a \in ResolvedActions :
          /\ a = Cancel
          /\ IF is_suggesting(Context)
             THEN Handled(cancel_suggestion(Context), a)
             ELSE Returned(Context, a, <<"Canceled", Context_into(Context)>>)

\* Action::Accept => return Ok(Outcome::Accepted(context.buffer_as_string()))
OnAccept ==
    /\ pc = "read"
    /\ \E a \in ResolvedActions :
          LET r == buffer_as_string(Context) IN
          /\ a = Accept
          /\ Returned(r, a, <<"Accepted", r.buffer.string>>)

\* Mutant of OnOtherEvent: a resize redraws the prompt
OnOtherEvent_redraws ==
    /\ pc = "read"
    /\ Handled(Context_print(Context), None)

\* An event that is not Event::Key (a resize): the loop reads the next one
OnOtherEvent ==
    /\ pc = "read"
    /\ Handled(Context, None)

\* crossterm::event::read()? failed: the error is returned
OnEventError ==
    /\ pc = "read"
    /\ Failed("event source")

\* The `?` after a handler that always draws (write, delete, suggest): the
\* writer's call failed and the error is returned
OnSinkError ==
    /\ pc = "read"
    /\ \E a \in ResolvedActions : a[1] \in {"Write", "Delete", "Suggest"}
    /\ Failed("terminal sink")

Next ==
    \/ Begin
    \/ BeginFails
    \/ OnEventError
    \/ OnSinkError
    \/ OnWrite
    \/ OnDelete
    \/ OnMove
    \/ OnComplete
    \/ OnSuggest
    \/ OnNoOp
    \/ OnCancel
    \/ OnAccept
    \/ OnOtherEvent

Spec == Init /\ [][Next]_vars

\* ------------------------------------------------------------------------
\* The Buffer on its own: any sequence of its public operations
\* ------------------------------------------------------------------------

\* The buffer "ab cd" with the cursor between 'c' and 'd'
BufInit ==
    /\ buffer \in {Buffer_new} \cup {Buffer_from(t) : t \in TextsUpTo(MaxInitLen)}
    /\ completion = None
    /\ suggestions = None
    /\ writer = RuclineWriter_new(FALSE, None)
    /\ drawn = NothingDrawn
    /\ completer = None
    /\ suggester = None
    /\ overrider = None
    /\ pc = "buffer"
    /\ outcome = None
    /\ panicked = FALSE
    /\ action = None
    /\ redraws = 0
    /\ original = None
    /\ event = None
    /\ builder = <<>>
    /\ stdout = <<>>
    /\ raw_mode = FALSE
    /\ terminal = <<>>

\* The operation op turned the buffer into b
BufStep(b, op) ==
    /\ pc = "buffer"
    /\ ~panicked
    /\ buffer' = b
    /\ action' = op
    /\ UNCHANGED <<completion, suggestions, writer, drawn, completer, suggester,
                   overrider, pc, outcome, panicked, redraws, original, event, builder, stdout,
                   raw_mode, terminal>>

BufWrite ==
    \E c \in Scalars :
        /\ Len(buffer.string) < MaxLen
        /\ BufStep(write(buffer, c), <<"write", c>>)

BufWriteStr ==
    \E t \in TextsUpTo(2) :
        /\ Len(buffer.string) + Len(t) <= MaxLen
        /\ BufStep(write_str(buffer, t), <<"write_str", t>>)

BufWriteRange ==
    \E t \in TextsUpTo(2), range \in Ranges :
        /\ Len(buffer.string) + Len(t) <= MaxLen
        /\ pc = "buffer"
        /\ ~panicked
        /\ buffer' = write_range(buffer, t, range)
        /\ panicked' = write_range_panics(t, range)
        /\ action' = <<"write_range", t, range>>
        /\ UNCHANGED <<completion, suggestions, writer, drawn, completer, suggester,
                       overrider, pc, outcome, redraws, original, event, builder, stdout,
                   raw_mode, terminal>>

BufDelete ==
    \E scope \in Scopes :
        /\ pc = "buffer"
        /\ BufStep(delete(buffer, scope), <<"delete", scope>>)

BufMoveCursor ==
    \E range \in Ranges, direction \in Directions :
        /\ pc = "buffer"
        /\ BufStep(move_cursor(buffer, range, direction),
                   <<"move_cursor", range, direction>>)

BufGoToEnd ==
    /\ pc = "buffer"
    /\ BufStep(go_to_end(buffer), <<"go_to_end">>)

BufClear ==
    /\ pc = "buffer"
    /\ BufStep(clear(buffer), <<"clear">>)

BufSetCursor ==
    \E i \in 0..(4 * MaxLen + 1) :
        LET r == set_cursor(buffer, i) IN
        /\ pc = "buffer"
        /\ BufStep(r.buffer, <<"set_cursor", i, r.ok>>)

\* The buffer is made by new_with_cursor(string, i) rather than by
\* Buffer::from(string); when that fails the buffer stays the one of from
BufNewWithCursor ==
    \E i \in 0..(4 * MaxLen + 1) :
        LET r == new_with_cursor(buffer.string, i) IN
        /\ pc = "buffer"
        /\ action = None
        /\ BufStep(r.buffer, <<"new_with_cursor", i, r.ok>>)

BufNext ==
    \/ BufWrite
    \/ BufWriteStr
    \/ BufWriteRange
    \/ BufDelete
    \/ BufMoveCursor
    \/ BufGoToEnd
    \/ BufClear
    \/ BufSetCursor
    \/ BufNewWithCursor

BufSpec == BufInit /\ [][BufNext]_vars

\* ------------------------------------------------------------------------
\* Buffer invariants
\* ------------------------------------------------------------------------

\* B1: the cursor is within the text
B1 == buffer.cursor <= str_len(buffer.string)

\* B2: the cursor is on a scalar boundary of the text
B2 == is_char_boundary(buffer.string, buffer.cursor)

\* C1: after every step of any sequence of Buffer operations (write,
\* write_str, write_range, delete, move_cursor, go_to_end, clear, successful
\* set_cursor) on a buffer built by new() or from(string), the cursor is at
\* most len(text) and lies on a scalar boundary of the text
C1_CursorWithinTextOnBoundary == B1 /\ B2

\* C1 witness: a backward move by one scalar left the cursor between the two
\* regional indicators of a flag
C1_Witness_CursorInsideFlag ==
    /\ pc = "buffer"
    /\ action = <<"move_cursor", "Single", "Backward">>
    /\ buffer.string = <<Flag, Flag>>
    /\ buffer.cursor = 4

\* ------------------------------------------------------------------------
\* The suggestion overlay and the outcome of read_line
\* ------------------------------------------------------------------------

\* The variant of an action, "None" when the last event carried none
Kind(a) == IF a = None THEN "None" ELSE a[1]

\* The overlay is open on a selected option
OptionSelected == IsSome(suggestions) /\ IsSome(Unwrap(suggestions).index)

\* The context after Materialize: the buffer replaced by the selected option
\* with the cursor at its end, the overlay closed
Materialized ==
    LET s == Unwrap(suggestions)
    IN [Context EXCEPT !.suggestions = None,
                       !.buffer = Buffer_from(s.options[Unwrap(s.index) + 1].string)]

\* The handler of action a run on the context ctx
AppliedTo(ctx, a) ==
    CASE Kind(a) = "Write" -> Context_write(ctx, a[2])
      [] Kind(a) = "Delete" -> Context_delete(ctx, a[2])
      [] Kind(a) = "Move" -> Context_move_cursor(ctx, a[2], a[3])
      [] Kind(a) = "Complete" -> Context_complete(ctx, a[2])
      [] OTHER -> ctx

\* C2: when the overlay is open on option k and the next action is Write,
\* Delete, Move, Complete or Accept, the buffer is first replaced by
\* options[k] with the cursor at its end and the overlay closed, and the
\* action is applied to that buffer
C2_MaterializeThenApply ==
    [][(/\ pc = "read"
        /\ OptionSelected
        /\ Kind(action') \in {"Write", "Delete", "Move", "Complete", "Accept"})
       => /\ suggestions' = None
          /\ buffer' = AppliedTo(Materialized, action').buffer]_vars

\* C3: whenever the overlay is open at the event read, the buffer text and
\* cursor are what they were when the overlay was opened
C3_OverlayNeverSurvivesMutation ==
    (pc = "read" /\ IsSome(suggestions)) => original = Some(buffer)

\* The index Suggest(direction) must lead to from index over n options
CycledIndex(index, n, direction) ==
    IF direction = "Forward"
    THEN IF index = None THEN Some(0)
         ELSE IF Unwrap(index) + 1 < n THEN Some(Unwrap(index) + 1) ELSE None
    ELSE IF index = None THEN Some(n - 1)
         ELSE IF Unwrap(index) = 0 THEN None ELSE Some(Unwrap(index) - 1)

\* C4 (index part): with the overlay open, Suggest moves the index as the
\* transition table says
C4_CycleIndex ==
    [][(pc = "read" /\ IsSome(suggestions) /\ Kind(action') = "Suggest")
       => /\ IsSome(suggestions')
          /\ Unwrap(suggestions').options = Unwrap(suggestions).options
          /\ Unwrap(suggestions').index =
                CycledIndex(Unwrap(suggestions).index,
                            Len(Unwrap(suggestions).options), action'[2])]_vars

\* C4: with the overlay open, Suggest moves the index as the transition
\* table says, and when the new index is none what is redrawn is the buffer
\* as it was before the overlay was opened
C4_CycleAndRedrawOriginal ==
    [][(pc = "read" /\ IsSome(suggestions) /\ Kind(action') = "Suggest")
       => /\ IsSome(suggestions')
          /\ Unwrap(suggestions').index =
                CycledIndex(Unwrap(suggestions).index,
                            Len(Unwrap(suggestions).options), action'[2])
          /\ Unwrap(suggestions').index = None =>
                /\ drawn'.kind = "print"
                /\ Some([string |-> drawn'.text, cursor |-> drawn'.cursor]) = original]_vars

\* C5: in Editing, Suggest with a suggester that returns N > 0 options opens
\* the overlay on option 0 (Forward) or N-1 (Backward), leaves the buffer as
\* it is, and draws the selected option with the panel of all options
C5_OpenOverlay ==
    [][(/\ pc = "read"
        /\ suggestions = None
        /\ Kind(action') = "Suggest"
        /\ IsSome(suggester)
        /\ Unwrap(suggester) /= <<>>)
       => LET options == Unwrap(suggester)
              k == IF action'[2] = "Forward" THEN 0 ELSE Len(options) - 1
          IN /\ suggestions' =
                   Some([index |-> Some(k),
                         options |-> [i \in 1..Len(options) |->
                                         [string |-> options[i],
                                          cursor |-> str_len(options[i])]]])
             /\ buffer' = buffer
             /\ drawn'.kind = "suggestions"
             /\ drawn'.index = k
             /\ drawn'.text = options[k + 1]
             /\ drawn'.options = options
             /\ pc' = "read"]_vars

\* C5 witness: Suggest(Backward) opened the overlay on the last of two
\* options over a non-empty buffer, which is unchanged
C5_Witness_OpenedBackward ==
    /\ pc = "read"
    /\ action = Suggest("Backward")
    /\ IsSome(suggestions)
    /\ Len(Unwrap(suggestions).options) = 2
    /\ Unwrap(suggestions).index = Some(1)
    /\ buffer.string /= <<>>
    /\ original = Some(buffer)
    /\ drawn.kind = "suggestions"
    /\ drawn.index = 1

\* C6: Cancel with the overlay open closes it, leaves the buffer as it was
\* before the overlay was opened and does not end read_line; Cancel in
\* Editing ends it
C6_CancelRestoresOriginal ==
    [][(pc = "read" /\ Kind(action') = "Cancel")
       => IF IsSome(suggestions)
          THEN /\ suggestions' = None
               /\ Some(buffer') = original
               /\ pc' = "read"
               /\ outcome' = None
          ELSE pc' = "done"]_vars

\* C7: in Editing, Suggest when the suggester returns no option, or when
\* there is no suggester, keeps the session in Editing with the buffer and
\* the inline completion unchanged, and redraws the buffer with its completion
C7_SuggestNothing ==
    [][(/\ pc = "read"
        /\ suggestions = None
        /\ Kind(action') = "Suggest"
        /\ (suggester = None \/ suggester = Some(<<>>)))
       => /\ suggestions' = None
          /\ buffer' = buffer
          /\ completion' = completion
          /\ redraws' = 1
          /\ drawn' = [kind |-> "print", text |-> buffer.string,
                       cursor |-> buffer.cursor, completion |-> completion,
                       index |-> 0, options |-> <<>>]
          /\ pc' = "read"]_vars

\* C7 witness: Suggest on an empty list redrew a buffer with its completion
C7_Witness_EmptyListRedraw ==
    /\ pc = "read"
    /\ Kind(action) = "Suggest"
    /\ suggester = Some(<<>>)
    /\ suggestions = None
    /\ IsSome(completion)
    /\ drawn.kind = "print"
    /\ drawn.completion = completion
    /\ drawn.text = buffer.string

\* C8: Accept ends read_line with Accepted(t), t being the buffer text in
\* Editing, options[k] when the overlay is open on option k, and the text of
\* the buffer as it was before the overlay was opened when no option is selected
C8_AcceptReturnsDisplayedText ==
    [][(pc = "read" /\ Kind(action') = "Accept")
       => /\ pc' = "done"
          /\ outcome' =
                Some(<<"Accepted",
                       IF suggestions = None THEN buffer.string
                       ELSE IF OptionSelected
                            THEN Unwrap(suggestions).options[
                                     Unwrap(Unwrap(suggestions).index) + 1].string
                            ELSE Unwrap(original).string>>)]_vars

\* C8 (session buffer): as C8, with the session's buffer at the moment of
\* Accept in place of the buffer saved when the overlay was opened
C8_AcceptReturnsSessionText ==
    [][(pc = "read" /\ Kind(action') = "Accept")
       => /\ pc' = "done"
          /\ outcome' =
                Some(<<"Accepted",
                       IF OptionSelected
                       THEN Unwrap(suggestions).options[
                                Unwrap(Unwrap(suggestions).index) + 1].string
                       ELSE buffer.string>>)]_vars

\* C9: Cancel in Editing ends read_line with Canceled(buffer), the buffer
\* having the text and the cursor the session's buffer had at that moment
C9_CancelReturnsBuffer ==
    [][(pc = "read" /\ suggestions = None /\ Kind(action') = "Cancel")
       => /\ pc' = "done"
          /\ outcome' = Some(<<"Canceled", buffer>>)]_vars

\* C9 witness: read_line returned a canceled buffer whose cursor is inside
\* the text
C9_Witness_CanceledMidText ==
    /\ pc = "done"
    /\ IsSome(outcome)
    /\ Unwrap(outcome)[1] = "Canceled"
    /\ Unwrap(outcome)[2].string /= <<>>
    /\ Unwrap(outcome)[2].cursor < str_len(Unwrap(outcome)[2].string)
    /\ Unwrap(outcome)[2] = buffer

\* C10 as stated: every event that resolved to an action other than NoOp
\* caused exactly one redraw, every event that resolved to NoOp none
C10_OneRedrawPerAction ==
    (pc \in {"read", "done"} /\ action /= None)
        => redraws = (IF action = NoOp THEN 0 ELSE 1)

\* Redraws of Context::complete: one when a completion is stored, unless
\* Complete(Single) finds it empty
CompleteRedraws(range, compl) ==
    IF compl = None \/ (range = "Single" /\ compl = Some(<<>>)) THEN 0 ELSE 1

\* Redraws the event that resolves to action a causes in the current state
ExpectedRedraws(a) ==
    CASE Kind(a) \in {"Write", "Delete", "Suggest"} -> 1
      [] Kind(a) = "Cancel" -> IF IsSome(suggestions) THEN 1 ELSE 0
      [] Kind(a) = "Move" ->
            IF at_end(try_take_suggestion(Context).buffer) /\ a[3] = "Forward"
            THEN CompleteRedraws(a[2], completion) ELSE 1
      [] Kind(a) = "Complete" -> CompleteRedraws(a[2], completion)
      [] OTHER -> 0

\* C10 amended: an event causes one redraw when it resolves to Write,
\* Delete, Suggest, Cancel with the overlay open, Move other than Forward
\* from the end of the buffer, or Complete (or Move Forward from the end)
\* with an inline completion stored; it causes none when it resolves to
\* NoOp, Accept, Cancel in Editing, or Complete (or Move Forward from the
\* end) with no completion stored or, for Single, an empty one
C10_RedrawsPerAction ==
    [][pc = "read" => redraws' = ExpectedRedraws(action')]_vars

\* C10 witness: a forward Move from the end of the buffer with no inline
\* completion stored was handled without a redraw
C10_Witness_MoveWithoutRedraw ==
    /\ pc = "read"
    /\ action = Move("Single", "Forward")
    /\ completion = None
    /\ buffer.string /= <<>>
    /\ at_end(buffer)
    /\ redraws = 0

\* ------------------------------------------------------------------------
\* The inline completion
\* ------------------------------------------------------------------------

\* What the configured completer returns for buffer b
CompleterResult(b) ==
    IF IsSome(completer) THEN complete_for(Unwrap(completer), b) ELSE None

\* C11: right after every Write, Delete or Complete action the stored
\* completion is what the completer returns for the resulting buffer, and
\* with the list completer it is absent when that buffer is empty
C11_CompletionRecomputed ==
    [][(/\ pc = "read"
        /\ pc' = "read"
        /\ Kind(action') \in {"Write", "Delete", "Complete"})
       => /\ completion' = CompleterResult(buffer')
          /\ (IsSome(completer) /\ buffer'.string = <<>>) => completion' = None]_vars

\* C11 (Write and Delete): as C11, for the two actions that always reach
\* update_completion
C11_RecomputedAfterWriteDelete ==
    [][(pc = "read" /\ pc' = "read" /\ Kind(action') \in {"Write", "Delete"})
       => /\ completion' = CompleterResult(buffer')
          /\ (IsSome(completer) /\ buffer'.string = <<>>) => completion' = None]_vars

\* ------------------------------------------------------------------------
\* Action resolution on its own: action_for on any event, buffer and override
\* ------------------------------------------------------------------------

\* Key codes without a scalar: those of the default table and some others
KeyCodes ==
    {"Enter", "Esc", "Tab", "BackTab", "Backspace", "Delete", "Right", "Left",
     "Home", "End", "Up", "Down", "PageUp", "Insert"}

\* KeyModifiers: any combination of the three modifier bits
ModifierSets == SUBSET {"CONTROL", "ALT", "SHIFT"}

\* The events action_for is applied to
AllEvents ==
    {Key(code) : code \in KeyCodes}
    \cup {F(i) : i \in 1..(Len(BoundActions) + 1)}
    \cup {Char(c, m) : c \in BoundLetters \cup TypedScalars, m \in ModifierSets}

\* Buffers of at most MaxInitLen scalars with the cursor on any boundary
KeyBuffers ==
    UNION {{[string |-> t, cursor |-> ByteOffset(t, k)] : k \in 0..Len(t)} :
              t \in TextsUpTo(MaxInitLen)}

KeyInit ==
    /\ buffer \in KeyBuffers
    /\ overrider \in {None, Some(Bindings), Some(SuppressingBindings)}
    /\ completion = None
    /\ suggestions = None
    /\ writer = RuclineWriter_new(FALSE, None)
    /\ drawn = NothingDrawn
    /\ completer = None
    /\ suggester = None
    /\ pc = "keys"
    /\ outcome = None
    /\ panicked = FALSE
    /\ action = None
    /\ redraws = 0
    /\ original = None
    /\ event = None
    /\ builder = <<>>
    /\ stdout = <<>>
    /\ raw_mode = FALSE
    /\ terminal = <<>>

\* action_for(overrider, e, &buffer), applied once to the inputs drawn
Resolve(e) ==
    /\ pc = "keys"
    /\ event = None
    /\ event' = Some(e)
    /\ action' = action_for(overrider, e, buffer)
    /\ UNCHANGED <<buffer, completion, suggestions, completer, suggester, overrider,
                   writer, pc, outcome, panicked, redraws, drawn, original, builder, stdout,
                   raw_mode, terminal>>

ResolveKey ==
    \E code \in KeyCodes :
        /\ pc = "keys"
        /\ Resolve(Key(code))

ResolveFunctionKey ==
    \E i \in 1..(Len(BoundActions) + 1) :
        /\ pc = "keys"
        /\ Resolve(F(i))

ResolveChar ==
    \E c \in BoundLetters \cup TypedScalars, m \in ModifierSets :
        /\ pc = "keys"
        /\ Resolve(Char(c, m))

KeyNext ==
    \/ ResolveKey
    \/ ResolveFunctionKey
    \/ ResolveChar

KeySpec == KeyInit /\ [][KeyNext]_vars

\* Ctrl-c and Alt-c as the default table writes them
Ctrl(c) == Char(c, {"CONTROL"})

AltKey(c) == Char(c, {"ALT"})

\* The rows of the default table that do not depend on the cursor
ListedAction(e) ==
    CASE e \in {Key("Enter"), Ctrl("m"), Ctrl("d")} -> Some(Accept)
      [] e \in {Key("Esc"), Ctrl("c")} -> Some(Cancel)
      [] e = Key("Tab") -> Some(Suggest("Forward"))
      [] e = Key("BackTab") -> Some(Suggest("Backward"))
      [] e = Key("Backspace") -> Some(Delete(Relative("Single", "Backward")))
      [] e = Key("Delete") -> Some(Delete(Relative("Single", "Forward")))
      [] e \in {Key("Left"), Ctrl("b")} -> Some(Move("Single", "Backward"))
      [] e \in {Key("Home"), Ctrl("a")} -> Some(Move("Line", "Backward"))
      [] e = AltKey("b") -> Some(Move("Word", "Backward"))
      [] e = Ctrl("j") -> Some(Delete(Relative("Word", "Backward")))
      [] e = Ctrl("k") -> Some(Delete(Relative("Word", "Forward")))
      [] e = Ctrl("h") -> Some(Delete(Relative("Line", "Backward")))
      [] e = Ctrl("l") -> Some(Delete(Relative("Line", "Forward")))
      [] e = Ctrl("w") -> Some(Delete(WholeWord))
      [] e = Ctrl("u") -> Some(Delete(WholeLine))
      [] OTHER -> None

\* The rows of the default table that depend on the cursor
ForwardKey(e) == e \in {Key("Right"), Ctrl("f"), Key("End"), Ctrl("e"), AltKey("f")}

\* The row "printable c (no Ctrl/Alt)"
Printable(e) ==
    e.code = "Char" /\ "CONTROL" \notin e.modifiers /\ "ALT" \notin e.modifiers

\* An event was resolved with no override configured
ResolvedByDefault == pc = "keys" /\ overrider = None /\ IsSome(event)

\* C12: with no override every event of the default table resolves to the
\* action listed for it, and every event the table does not list to NoOp
C12_DefaultTable ==
    ResolvedByDefault =>
        LET e == Unwrap(event)
        IN IF IsSome(ListedAction(e)) THEN action = Unwrap(ListedAction(e))
           ELSE ForwardKey(e) \/ Printable(e) \/ action = NoOp

\* C12 (one modifier at most): as C12, for the events that carry no
\* modifier or a single one
C12_DefaultTableSingleModifier ==
    (ResolvedByDefault /\ Cardinality(Unwrap(event).modifiers) <= 1) =>
        LET e == Unwrap(event)
        IN IF IsSome(ListedAction(e)) THEN action = Unwrap(ListedAction(e))
           ELSE ForwardKey(e) \/ Printable(e) \/ action = NoOp

C14_WriteOnlyWithoutCtrlAlt ==
    (ResolvedByDefault /\ Unwrap(event).code = "Char") =>
        LET e == Unwrap(event)
        IN IF Printable(e) THEN action = Write(e.c)
           ELSE /\ Kind(action) /= "Write"
                /\ (ListedAction(e) = None /\ ~ForwardKey(e)) => action = NoOp

\* C15: the action resolved is the one the override returns when it returns
\* one, and the default one when it returns none or there is no override;
\* with Tab bound to Write('\t'), Tab writes a tab and opens no overlay
C15_OverridePrecedence ==
    (pc = "keys" /\ IsSome(event)) =>
        LET e == Unwrap(event)
            overridden == IF IsSome(overrider)
                          THEN override_for(Unwrap(overrider), e, buffer) ELSE None
        IN /\ action = (IF IsSome(overridden) THEN Unwrap(overridden)
                        ELSE default_action(e, buffer))
           /\ (overrider = Some(Bindings) /\ e = Key("Tab")) =>
                 /\ action = Write("\t")
                 /\ Context_write(Context, action[2]).buffer = write(buffer, "\t")
                 /\ Context_write(Context, action[2]).suggestions = None

\* C15 witness: an override returning NoOp for Enter suppressed Accept
C15_Witness_EnterSuppressed ==
    /\ pc = "keys"
    /\ overrider = Some(SuppressingBindings)
    /\ event = Some(Key("Enter"))
    /\ default_action(Key("Enter"), buffer) = Accept
    /\ action = NoOp

\* ------------------------------------------------------------------------
\* prompt/builder.rs: the builder chain
\* ------------------------------------------------------------------------

\* Longest chain of hook setters
MaxChain == 3

HookKinds == {"overrider", "completer", "suggester"}

\* The owned (overrider), closure (overrider_fn) and reference
\* (overrider_ref) forms of a setter
HookForms == {"owned", "fn", "ref"}

\* Hooks a setter of each kind may be given
HooksOf(kind) ==
    CASE kind = "overrider" -> {Bindings, SuppressingBindings}
      [] kind = "completer" -> {Candidates, << <<"x">> >>}
      [] kind = "suggester" -> OptionLists \ {<<>>}

\* Prompt::from(..): no hook set
Prompt == <<>>

\* WithOverrider { base, overrider } and its five siblings: the setter wraps
\* the builder it is called on
With(base, kind, form, hook) ==
    Append(base, [kind |-> kind, form |-> form, hook |-> hook])

\* The hooks handed down a chain: one optional hook per kind
NoHooks == [overrider |-> None, completer |-> None, suggester |-> None]

\* chain_read_line of one layer ignoring a hook handed down from outside
chain_layer_overwrites(layer, hooks) ==
    [hooks EXCEPT ![layer.kind] = Some(layer.hook)]

\* chain_read_line of one layer: the hooks it hands to its base
chain_layer(layer, hooks) ==
    IF IsSome(hooks[layer.kind])
    THEN hooks
    ELSE [hooks EXCEPT ![layer.kind] = Some(layer.hook)]

\* chain_read_line down to the Prompt: the hooks super::read_line receives
RECURSIVE chain_read_line(_, _)
chain_read_line(layers, hooks) ==
    IF layers = Prompt THEN hooks
    ELSE chain_read_line(SubSeq(layers, 1, Len(layers) - 1),
                         chain_layer(layers[Len(layers)], hooks))

\* Builder::read_line of the outermost layer: the hooks super::read_line
\* receives
Builder_read_line(layers) ==
    IF layers = Prompt THEN NoHooks
    ELSE LET outer == layers[Len(layers)]
         IN chain_read_line(SubSeq(layers, 1, Len(layers) - 1),
                            [NoHooks EXCEPT ![outer.kind] = Some(outer.hook)])

BuildInit ==
    /\ buffer = Buffer_new
    /\ completion = None
    /\ suggestions = None
    /\ writer = RuclineWriter_new(FALSE, None)
    /\ drawn = NothingDrawn
    /\ completer = None
    /\ suggester = None
    /\ overrider = None
    /\ pc = "build"
    /\ outcome = None
    /\ panicked = FALSE
    /\ action = None
    /\ redraws = 0
    /\ original = None
    /\ event = None
    /\ builder = Prompt
    /\ stdout = <<>>
    /\ raw_mode = FALSE
    /\ terminal = <<>>

\* A setter of the given kind was called on the builder
SetHook(kind) ==
    /\ pc = "build"
    /\ Len(builder) < MaxChain
    /\ \E form \in HookForms, hook \in HooksOf(kind) :
          builder' = With(builder, kind, form, hook)
    /\ UNCHANGED <<buffer, completion, suggestions, completer, suggester, overrider,
                   writer, pc, outcome, panicked, action, redraws, drawn, original,
                   event, stdout,
                   raw_mode, terminal>>

\* .overrider(..), .overrider_fn(..), .overrider_ref(..)
SetOverrider == pc = "build" /\ SetHook("overrider")

\* .completer(..), .completer_fn(..), .completer_ref(..)
SetCompleter == pc = "build" /\ SetHook("completer")

\* .suggester(..), .suggester_fn(..), .suggester_ref(..)
SetSuggester == pc = "build" /\ SetHook("suggester")

\* .read_line(): super::read_line starts with the hooks the chain hands it
BuilderReadLine ==
    /\ pc = "build"
    /\ LET hooks == Builder_read_line(builder)
       IN /\ overrider' = hooks.overrider
          /\ completer' = hooks.completer
          /\ suggester' = hooks.suggester
    /\ pc' = "built"
    /\ UNCHANGED <<buffer, completion, suggestions, writer, outcome, panicked, action,
                   redraws, drawn, original, event, builder, stdout,
                   raw_mode, terminal>>

BuildNext ==
    \/ SetOverrider
    \/ SetCompleter
    \/ SetSuggester
    \/ BuilderReadLine

BuildSpec == BuildInit /\ [][BuildNext]_vars

\* The hook of the given kind set last in the chain, if any
LastSet(kind) ==
    LET set == {i \in 1..Len(builder) : builder[i].kind = kind}
    IN IF set = {} THEN None ELSE Some(builder[SetMax(set)].hook)

\* C16: the overrider, completer and suggester that reach read_line are,
\* for each kind, the one set last in the builder chain, whatever forms the
\* setters had
C16_LastHookWins ==
    pc = "built" =>
        /\ overrider = LastSet("overrider")
        /\ completer = LastSet("completer")
        /\ suggester = LastSet("suggester")

\* C16 witness: the overrider was set twice, through different forms and
\* with a completer in between, and read_line got the second one
C16_Witness_OverriderSetTwice ==
    /\ pc = "built"
    /\ Len(builder) = 3
    /\ builder[1].kind = "overrider"
    /\ builder[2].kind = "completer"
    /\ builder[3].kind = "overrider"
    /\ builder[1].form /= builder[3].form
    /\ builder[1].hook /= builder[3].hook
    /\ overrider = Some(builder[3].hook)
    /\ completer = Some(builder[2].hook)

\* ------------------------------------------------------------------------
\* Buffer::delete
\* ------------------------------------------------------------------------

\* The span the table gives for a Relative scope or WholeLine, as byte
\* offsets <<from, to>>
TableSpan(b, scope) ==
    CASE scope = Relative("Single", "Backward") ->
            <<previous_scalar_value(b.cursor, b.string), b.cursor>>
      [] scope = Relative("Single", "Forward") ->
            <<b.cursor, next_scalar_value(b.cursor, b.string)>>
      [] scope = Relative("Word", "Backward") ->
            <<previous_word(b.cursor, b.string), b.cursor>>
      [] scope = Relative("Word", "Forward") ->
            <<b.cursor, next_word(b.cursor, b.string)>>
      [] scope = Relative("Line", "Backward") -> <<0, b.cursor>>
      [] scope = Relative("Line", "Forward") -> <<b.cursor, str_len(b.string)>>
      [] scope = WholeLine -> <<0, str_len(b.string)>>

\* The text s without the scalars that start in [from, to), the others in
\* their order
WithoutSpan(s, from, to) ==
    LET kept == {k \in 1..Len(s) : ByteOffset(s, k - 1) < from \/ ByteOffset(s, k - 1) >= to}
    IN [i \in 1..Cardinality(kept) |->
          s[CHOOSE k \in kept : Cardinality({j \in kept : j <= k}) = i]]

\* The buffer b with the span removed and the cursor on its left edge
SpanRemoved(b, span) ==
    [string |-> WithoutSpan(b.string, span[1], span[2]), cursor |-> span[1]]

\* The last operation was Buffer::delete with a Relative scope or WholeLine
IsTableDelete(op) ==
    /\ op /= None
    /\ op[1] = "delete"
    /\ op[2] /= WholeWord

\* C17: delete with a Relative scope or WholeLine removes exactly the span
\* of the table, leaves the rest of the text as it is and puts the cursor on
\* the left edge of the span; a Single delete of a non-empty span removes
\* one scalar
C17_DeleteRemovesTableSpan ==
    [][(pc = "buffer" /\ IsTableDelete(action'))
       => LET span == TableSpan(buffer, action'[2])
          IN /\ buffer' = SpanRemoved(buffer, span)
             /\ (action'[2] \in {Relative("Single", d) : d \in Directions}
                    /\ span[1] < span[2]) =>
                   Len(buffer'.string) = Len(buffer.string) - 1]_vars

\* C17 witness: a Backspace behind a two-scalar flag left its first half
C17_Witness_HalfFlag ==
    /\ pc = "buffer"
    /\ action = <<"delete", Relative("Single", "Backward")>>
    /\ buffer = [string |-> <<Flag>>, cursor |-> 4]

\* The span previous_word_end(cursor)..next_word(cursor) of delete(WholeWord)
WordSpan(b) == <<previous_word_end(b.cursor, b.string), next_word(b.cursor, b.string)>>

\* The scalar that starts at byte offset i of s is a whitespace
WhitespaceAt(s, i) ==
    \E k \in 1..Len(s) : ByteOffset(s, k - 1) = i /\ is_whitespace(s[k])

\* The scalar that ends at byte offset i of s is a whitespace
WhitespaceBefore(s, i) ==
    \E k \in 1..Len(s) : ByteOffset(s, k) = i /\ is_whitespace(s[k])

\* The spans that leave one whitespace of the border of span in place
OneSpaceKept(b, span) ==
    {<<span[1] + 1, span[2]>> : x \in {y \in {1} : WhitespaceAt(b.string, span[1])}}
    \cup {<<span[1], span[2] - 1>> : x \in {y \in {1} : WhitespaceBefore(b.string, span[2])}}

\* C18 as stated: delete(WholeWord) removes previous_word_end(cursor) to
\* next_word(cursor) and, whenever the cursor is not at index 0, leaves one
\* whitespace of the border of that span in place; the cursor goes to the
\* left edge of what was removed
C18_WholeWordKeepsOneSpace ==
    [][(pc = "buffer" /\ action' = <<"delete", WholeWord>>)
       => LET span == WordSpan(buffer)
          IN IF buffer.cursor /= 0 /\ OneSpaceKept(buffer, span) /= {}
             THEN \E kept \in OneSpaceKept(buffer, span) : buffer' = SpanRemoved(buffer, kept)
             ELSE buffer' = SpanRemoved(buffer, span)]_vars

\* C18 amended: delete(WholeWord) removes previous_word_end(cursor) to
\* next_word(cursor), except that when previous_word_end(cursor) is not
\* index 0 it leaves in place the whitespace at the start of that span or,
\* if there is none, the whitespace at its end; the cursor goes to the left
\* edge of what was removed
C18_WholeWordKeepsSpaceUnlessAtStart ==
    [][(pc = "buffer" /\ action' = <<"delete", WholeWord>>)
       => LET span == WordSpan(buffer)
          IN buffer' = SpanRemoved(buffer,
                CASE span[1] > 0 /\ WhitespaceAt(buffer.string, span[1]) ->
                        <<span[1] + 1, span[2]>>
                  [] span[1] > 0 /\ ~WhitespaceAt(buffer.string, span[1])
                               /\ WhitespaceBefore(buffer.string, span[2]) ->
                        <<span[1], span[2] - 1>>
                  [] OTHER -> span)]_vars

\* C18 witness: delete(WholeWord) inside the first word took the word and
\* the whitespace behind it, leaving the second word at the start
C18_Witness_FirstWordGone ==
    /\ pc = "buffer"
    /\ action = <<"delete", WholeWord>>
    /\ buffer = [string |-> <<"x">>, cursor |-> 0]

\* ------------------------------------------------------------------------
\* Buffer::delete(WholeWord) on lines of words
\* ------------------------------------------------------------------------

\* Words: one segment of one letter, one segment of two letters, and two
\* segments (a letter then an emoji)
WordTokens == {<<"a">>, <<"a", "x">>, <<"a", Emoji>>}

\* Runs of whitespace between the words
GapTokens == {<<" ">>, <<"\t", " ">>}

\* The lines of exactly n words, a gap between each two
RECURSIVE WordLines(_)
WordLines(n) ==
    IF n = 1 THEN WordTokens
    ELSE {l \o g \o w : l \in WordLines(n - 1), g \in GapTokens, w \in WordTokens}

\* The delete(WholeWord) calls in a row that op ends
Repeats(op) == IF op = None THEN 0 ELSE op[3]

\* "ab cd" with the cursor between 'c' and 'd'
VectorBuffer == [string |-> <<"a", "b", " ", "c", "d">>, cursor |-> 4]

WordInit ==
    /\ \/ buffer = VectorBuffer
       \/ \E n \in 1..MaxWords : \E l \in WordLines(n) : \E k \in 0..Len(l) :
             buffer = [string |-> l, cursor |-> ByteOffset(l, k)]
    /\ completion = None
    /\ suggestions = None
    /\ writer = RuclineWriter_new(FALSE, None)
    /\ drawn = NothingDrawn
    /\ completer = None
    /\ suggester = None
    /\ overrider = None
    /\ pc = "words"
    /\ outcome = None
    /\ panicked = FALSE
    /\ action = None
    /\ redraws = 0
    /\ original = None
    /\ event = None
    /\ builder = <<>>
    /\ stdout = <<>>
    /\ raw_mode = FALSE
    /\ terminal = <<>>

WordStep(b, op) ==
    /\ pc = "words"
    /\ buffer' = b
    /\ action' = op
    /\ UNCHANGED <<completion, suggestions, writer, drawn, completer, suggester,
                   overrider, pc, outcome, panicked, redraws, original, event, builder, stdout,
                   raw_mode, terminal>>

WordDelete ==
    /\ Repeats(action) < MaxWords
    /\ WordStep(delete(buffer, WholeWord), <<"delete", WholeWord, Repeats(action) + 1>>)

WordNext ==
    WordDelete

WordSpec == WordInit /\ [][WordNext]_vars

\* The word the cursor of b is in or at an edge of
WordsAtCursor(b) ==
    {p \in split_word_bound_indices(b.string) :
        /\ StartsWord(p)
        /\ p.off <= b.cursor
        /\ b.cursor <= p.off + str_len(p.text)}

\* The scalars of s that are not whitespace and end at or before byte i
WordScalarsBefore(s, i) ==
    {k \in 1..Len(s) : ByteOffset(s, k) <= i /\ ~is_whitespace(s[k])}

\* The scalars of s that are not whitespace and start at or after byte i
WordScalarsAfter(s, i) ==
    {k \in 1..Len(s) : ByteOffset(s, k - 1) >= i /\ ~is_whitespace(s[k])}

\* The word p of s has whitespace and then a word on each of its sides
HasNeighbours(s, p) ==
    /\ WhitespaceBefore(s, p.off)
    /\ WhitespaceAt(s, p.off + str_len(p.text))
    /\ WordScalarsBefore(s, p.off) /= {}
    /\ WordScalarsAfter(s, p.off + str_len(p.text)) /= {}

\* What is left of s when the word p and the whitespace around it give way
\* to the single whitespace w
JoinedBy(s, p, w) ==
    SubSeq(s, 1, SetMax(WordScalarsBefore(s, p.off)))
    \o <<w>>
    \o SubSeq(s, SetMin(WordScalarsAfter(s, p.off + str_len(p.text))), Len(s))

\* C20: when delete(WholeWord) runs with the cursor in a word that has
\* whitespace and then a word on each side, the two neighbours end up with
\* exactly one whitespace between them, on the first call and on each
\* repeated one
C20_NeighboursJoinedByOneSpace ==
    [][(pc = "words" /\ action'[1] = "delete")
       => \A p \in WordsAtCursor(buffer) :
             HasNeighbours(buffer.string, p)
             => \E w \in {" ", "\t"} :
                   buffer'.string = JoinedBy(buffer.string, p, w)]_vars

\* C20 witness: two delete(WholeWord) calls in a row took two middle words
\* out of a line of four and left the outer two joined by one whitespace
C20_Witness_TwoWordsCollapsed ==
    /\ pc = "words"
    /\ action = <<"delete", WholeWord, 2>>
    /\ buffer.string = <<"a", "x", " ", "a", "x">>

\* C19 as stated: on "ab cd" with the cursor between 'c' and 'd',
\* delete(WholeWord) gives "ab d" with the cursor before 'd'
C19_VectorRemovesC ==
    [][(pc = "words" /\ buffer = VectorBuffer /\ action'[1] = "delete")
       => buffer' = [string |-> <<"a", "b", " ", "d">>, cursor |-> 3]]_vars

\* C19 amended: on "ab cd" with the cursor between 'c' and 'd',
\* delete(WholeWord) removes the word "cd" and leaves the space before it,
\* giving "ab " with the cursor at the end
C19_VectorRemovesWord ==
    [][(pc = "words" /\ buffer = VectorBuffer /\ action'[1] = "delete")
       => buffer' = [string |-> <<"a", "b", " ">>, cursor |-> 3]]_vars

\* C19 witness: delete(WholeWord) left "ab " with the cursor at the end
C19_Witness_VectorResult ==
    /\ pc = "words"
    /\ action = <<"delete", WholeWord, 1>>
    /\ buffer = [string |-> <<"a", "b", " ">>, cursor |-> 3]

\* ------------------------------------------------------------------------
\* Buffer operations one after the other (round trips)
\* ------------------------------------------------------------------------

\* Every text of at most MaxInitLen scalars with the cursor on each of its
\* scalar boundaries (Buffer::new_with_cursor)
OpsBuffers ==
    UNION {{[string |-> t, cursor |-> ByteOffset(t, k)] : k \in 0..Len(t)} :
              t \in TextsUpTo(MaxInitLen)}

\* `action` is the sequence of the operations applied so far
OpsInit ==
    /\ buffer \in OpsBuffers
    /\ original = Some(buffer)
    /\ action = <<>>
    /\ completion = None
    /\ suggestions = None
    /\ writer = RuclineWriter_new(FALSE, None)
    /\ drawn = NothingDrawn
    /\ completer = None
    /\ suggester = None
    /\ overrider = None
    /\ pc = "ops"
    /\ outcome = None
    /\ panicked = FALSE
    /\ redraws = 0
    /\ event = None
    /\ builder = <<>>
    /\ stdout = <<>>
    /\ raw_mode = FALSE
    /\ terminal = <<>>

\* The operation op turned the buffer into b
OpsStep(b, op) ==
    /\ pc = "ops"
    /\ Len(action) < MaxOps
    /\ buffer' = b
    /\ action' = Append(action, op)
    /\ UNCHANGED <<completion, suggestions, writer, drawn, completer, suggester,
                   overrider, pc, outcome, panicked, redraws, original, event, builder, stdout,
                   raw_mode, terminal>>

OpsDelete ==
    OpsStep(delete(buffer, Relative("Single", "Forward")),
            <<"delete", Relative("Single", "Forward")>>)

OpsWrite ==
    \E c \in Scalars : OpsStep(write(buffer, c), <<"write", c>>)

OpsMoveCursor ==
    \E range \in {"Line", "Word"}, direction \in Directions :
        OpsStep(move_cursor(buffer, range, direction),
                <<"move_cursor", range, direction>>)

OpsNext ==
    \/ OpsDelete
    \/ OpsWrite
    \/ OpsMoveCursor

OpsSpec == OpsInit /\ [][OpsNext]_vars

\* The scalar of b that starts at its cursor
ScalarAtCursor(b) == b.string[CharsBefore(b.string, b.cursor) + 1]

\* C21: delete(Relative(Single, Forward)) with the cursor before the end,
\* followed by write(c) of the scalar c it deleted, restores the text the
\* buffer had
C21_DeleteThenWriteRestores ==
    [][(/\ pc = "ops"
        /\ Unwrap(original).cursor < str_len(Unwrap(original).string)
        /\ action = << <<"delete", Relative("Single", "Forward")>> >>
        /\ action' = Append(action, <<"write", ScalarAtCursor(Unwrap(original))>>))
       => buffer'.string = Unwrap(original).string]_vars

\* C21 witness: the emoji that ends "a", emoji was deleted and written
\* again
C21_Witness_EmojiRestored ==
    /\ pc = "ops"
    /\ original = Some([string |-> <<"a", Emoji>>, cursor |-> 1])
    /\ action = << <<"delete", Relative("Single", "Forward")>>, <<"write", Emoji>> >>
    /\ buffer = [string |-> <<"a", Emoji>>, cursor |-> 5]

\* C22: move_cursor(Line, Forward) followed by move_cursor(Line, Backward)
\* leaves the cursor at 0, and move_cursor(Line, Forward) twice leaves the
\* buffer as the first one left it, with the cursor at the end
C22_LineMovesCompose ==
    [][(pc = "ops" /\ action = << <<"move_cursor", "Line", "Forward">> >>)
       => /\ action' = Append(action, <<"move_cursor", "Line", "Backward">>)
             => buffer'.cursor = 0 /\ buffer'.string = buffer.string
          /\ action' = Append(action, <<"move_cursor", "Line", "Forward">>)
             => /\ buffer' = buffer
                /\ buffer.cursor = str_len(buffer.string)
                /\ buffer.string = Unwrap(original).string]_vars

\* C22 witness: two (Line, Forward) moves from the start of a text
C22_Witness_ForwardTwice ==
    /\ pc = "ops"
    /\ original = Some([string |-> <<"a", Flag>>, cursor |-> 0])
    /\ action = << <<"move_cursor", "Line", "Forward">>, <<"move_cursor", "Line", "Forward">> >>
    /\ buffer = [string |-> <<"a", Flag>>, cursor |-> 5]

\* The byte offsets that are scalar boundaries of s
Boundaries(s) == {ByteOffset(s, k) : k \in 0..Len(s)}

\* The boundaries of s after byte i where a segment that does not begin with
\* whitespace starts
WordStartsAfter(s, i) ==
    {p.off : p \in {q \in split_word_bound_indices(s) :
                       q.off > i /\ ~is_whitespace(q.text[1])}}

\* C23: for every text s and scalar boundary i, next_word(i, s) and
\* prev_word(i, s) are scalar boundaries of s; next_word(i, s) is the
\* smallest boundary after i where a segment not beginning with whitespace
\* starts, or len(s) when there is none; and next_word(prev_word(i, s), s)
\* is at least i
C23_WordNavigation ==
    [][(pc = "ops")
       => LET s == Unwrap(original).string
              i == Unwrap(original).cursor
          IN /\ action' = << <<"move_cursor", "Word", "Forward">> >>
                => /\ buffer'.cursor \in Boundaries(s)
                   /\ buffer'.cursor =
                        IF WordStartsAfter(s, i) = {} THEN str_len(s)
                        ELSE SetMin(WordStartsAfter(s, i))
             /\ action' = << <<"move_cursor", "Word", "Backward">> >>
                => buffer'.cursor \in Boundaries(s) /\ buffer'.cursor <= i
             /\ action' = << <<"move_cursor", "Word", "Backward">>,
                             <<"move_cursor", "Word", "Forward">> >>
                => buffer'.cursor \in Boundaries(s) /\ buffer'.cursor >= i]_vars

\* C23 witness: from the end of space, flag the cursor went back to the
\* start of the flag and forward again to the end
C23_Witness_BackAndForth ==
    /\ pc = "ops"
    /\ original = Some([string |-> <<" ", Flag>>, cursor |-> 5])
    /\ action = << <<"move_cursor", "Word", "Backward">>,
                   <<"move_cursor", "Word", "Forward">> >>
    /\ buffer.cursor = 5

\* ------------------------------------------------------------------------
\* Buffer::set_cursor and Buffer::new_with_cursor
\* ------------------------------------------------------------------------

\* C24: set_cursor(i) fails with InvalidIndex and leaves text and cursor as
\* they were when i is not a scalar boundary of the text (every i > len
\* included), and succeeds with the cursor at i when it is one;
\* new_with_cursor(s, i) fails and succeeds on the same condition
C24_SetCursorOnBoundaryOnly ==
    [][(pc = "buffer")
       => /\ action'[1] = "set_cursor"
             => LET i == action'[2]
                    ok == action'[3]
                IN IF i \in Boundaries(buffer.string)
                   THEN ok /\ buffer' = [buffer EXCEPT !.cursor = i]
                   ELSE ~ok /\ buffer' = buffer
          /\ action'[1] = "new_with_cursor"
             => LET i == action'[2]
                    ok == action'[3]
                IN IF i \in Boundaries(buffer.string)
                   THEN ok /\ buffer' = [string |-> buffer.string, cursor |-> i]
                   ELSE ~ok]_vars

\* C24 witness: set_cursor(2) on a text that is one emoji of four bytes
\* failed and left the cursor at the end
C24_Witness_InsideEmojiRejected ==
    /\ pc = "buffer"
    /\ action = <<"set_cursor", 2, FALSE>>
    /\ buffer = [string |-> <<Emoji>>, cursor |-> 4]

\* ------------------------------------------------------------------------
\* Buffer::write_range
\* ------------------------------------------------------------------------

\* C25: write_range(s, range) with an empty s changes neither text nor
\* cursor and does not panic, for Line, Word and Single
C25_EmptyWriteRangeIsNoOp ==
    [][(pc = "buffer" /\ action'[1] = "write_range" /\ action'[2] = <<>>)
       => buffer' = buffer /\ ~panicked']_vars

\* The prefix of s that write_range(s, range) is to insert
RangePrefix(s, range) ==
    CASE range = "Line" -> s
      [] range = "Word" -> SubSeq(s, 1, CharsBefore(s, next_word(0, s)))
      [] range = "Single" -> <<s[1]>>

\* C26: write_range(s, range) with a non-empty s inserts at the cursor all
\* of s for Line, s up to next_word(0, s) for Word and the first scalar of s
\* for Single, advances the cursor by the bytes inserted and leaves the text
\* before and after the cursor as it was
C26_WriteRangeInsertsPrefix ==
    [][(pc = "buffer" /\ action'[1] = "write_range" /\ action'[2] /= <<>>)
       => LET prefix == RangePrefix(action'[2], action'[3])
              k == CharsBefore(buffer.string, buffer.cursor)
          IN /\ buffer'.string = SubSeq(buffer.string, 1, k) \o prefix
                                   \o SubSeq(buffer.string, k + 1, Len(buffer.string))
             /\ buffer'.cursor = buffer.cursor + str_len(prefix)
             /\ ~panicked']_vars

\* C26 witness: write_range of "a", emoji by Word at the start of "x"
\* wrote "a" and stopped before the emoji
C26_Witness_WordPrefixWritten ==
    /\ pc = "buffer"
    /\ action = <<"write_range", <<"a", Emoji>>, "Word">>
    /\ buffer = [string |-> <<"a", "x">>, cursor |-> 1]

\* ------------------------------------------------------------------------
\* Action::Complete
\* ------------------------------------------------------------------------

\* What Complete(range) is to do to the buffer and the completion: the
\* range-prefix of the completion t (nothing when t is absent or empty)
\* goes to the end of the text, the cursor after it, and the completion is
\* asked again when there was one
CompleteAppends(range) ==
    LET t == IF IsSome(completion) THEN Unwrap(completion) ELSE <<>>
        prefix == IF t = <<>> THEN <<>> ELSE RangePrefix(t, range)
    IN /\ buffer'.string = buffer.string \o prefix
       /\ buffer'.cursor = str_len(buffer'.string)
       /\ IsSome(completion) => completion' = CompleterResult(buffer')

\* C27: a Complete(range) action moves the cursor to the end of the buffer,
\* appends the range-prefix of the inline completion there and refreshes
\* the completion; with no completion the text is unchanged
C27_CompleteAppendsPrefix ==
    [][(pc = "read" /\ Kind(action') = "Complete")
       => ~panicked' /\ CompleteAppends(action'[2])]_vars

\* C27 (all but Single on an empty completion): as C27, for the calls that
\* do not take the first scalar of an empty completion
C27_CompleteAppendsUnlessEmptySingle ==
    [][(/\ pc = "read"
        /\ Kind(action') = "Complete"
        /\ ~(action'[2] = "Single" /\ completion = Some(<<>>)))
       => ~panicked' /\ CompleteAppends(action'[2])]_vars

\* ------------------------------------------------------------------------
\* The list completer
\* ------------------------------------------------------------------------

\* The positions in list of the candidates that begin with text
BeginningWith(list, text) ==
    {i \in 1..Len(list) :
        Len(list[i]) >= Len(text) /\ \A k \in 1..Len(text) : list[i][k] = text[k]}

\* C28: for a non-empty buffer the list completer returns what the first
\* candidate in list order that begins with the buffer has beyond the
\* buffer's length; it returns None when the buffer is empty or no
\* candidate begins with it
C28_FirstMatchRemainder ==
    [][(pc = "read" /\ IsSome(completer) /\ Kind(action') \in {"Write", "Delete"})
       => LET list == Unwrap(completer)
              text == buffer'.string
              matching == BeginningWith(list, text)
          IN IF text = <<>> \/ matching = {}
             THEN completion' = None
             ELSE \E i \in matching :
                     /\ \A j \in matching : i <= j
                     /\ completion' =
                          Some([k \in 1..(Len(list[i]) - Len(text)) |->
                                   list[i][Len(text) + k]])]_vars

\* C28 witness: "a" was typed, "a x" and "ax" both begin with it, and the
\* completion is the remainder " x" of the first
C28_Witness_FirstOfTwoMatches ==
    /\ pc = "read"
    /\ action = Write("a")
    /\ buffer.string = <<"a">>
    /\ completer = Some(Candidates)
    /\ completion = Some(<<" ", "x">>)

\* ------------------------------------------------------------------------
\* The writer's counters
\* ------------------------------------------------------------------------

\* The completion last drawn behind the text, empty when there was none
DrawnCompletion == IF IsSome(drawn.completion) THEN Unwrap(drawn.completion) ELSE <<>>

\* The drawn text before and after the cursor it was drawn with
DrawnBeforeCursor == SubSeq(drawn.text, 1, CharsBefore(drawn.text, drawn.cursor))

DrawnAfterCursor ==
    SubSeq(drawn.text, CharsBefore(drawn.text, drawn.cursor) + 1, Len(drawn.text))

\* C29 as stated: after any number of redraws printed_length is the number
\* of graphemes of the last drawn text plus completion, and cursor_offset
\* the number of graphemes from the cursor to the end of the drawn text
C29_CountersIncludeCompletion ==
    /\ writer.printed_length = graphemes_count(drawn.text \o DrawnCompletion)
    /\ writer.cursor_offset = graphemes_count(DrawnAfterCursor)

\* C29 amended: after any number of redraws printed_length is the number of
\* graphemes of the last drawn text, the completion not counted, and
\* cursor_offset is printed_length less the number of graphemes of the
\* drawn text before the cursor
C29_CountersOfDrawnText ==
    /\ writer.printed_length = graphemes_count(drawn.text)
    /\ writer.cursor_offset =
          writer.printed_length - graphemes_count(DrawnBeforeCursor)

\* C29 witness: "a" was drawn with the completion " x" behind it and the
\* counters stand at one grapheme printed, cursor at the end
C29_Witness_CompletionNotCounted ==
    /\ pc = "read"
    /\ drawn.kind = "print"
    /\ drawn.text = <<"a">>
    /\ drawn.completion = Some(<<" ", "x">>)
    /\ writer.printed_length = 1
    /\ writer.cursor_offset = 0

\* ------------------------------------------------------------------------
\* prompt/writer.rs: rewind_cursor and fast_forward_cursor
\* ------------------------------------------------------------------------

\* u16::max_value()
u16_MAX == 65535

\* n as u16
as_u16(n) == n % 65536

\* Mutant of loop_continues: the loop body is never run
loop_never_continues(remaining) == FALSE

\* while remaining > usize::from(u16::max_value())
loop_continues(remaining) == remaining > u16_MAX

\* The amounts the two functions are called with: around each multiple of
\* u16::MAX up to MaxChunks of them
Amounts ==
    {a \in {k * u16_MAX + d : k \in 0..MaxChunks, d \in (0 - MaxSlack)..MaxSlack} : a >= 0}

\* The terminal command each function queues
MoveOf(fn) == IF fn = "rewind_cursor" THEN "MoveLeft" ELSE "MoveRight"

CursorInit ==
    /\ \E fn \in {"rewind_cursor", "fast_forward_cursor"}, amount \in Amounts :
          stdout = [fn |-> fn, amount |-> amount, remaining |-> amount,
                    moves |-> <<>>, at |-> "entry"]
    /\ buffer = Buffer_new
    /\ completion = None
    /\ suggestions = None
    /\ writer = RuclineWriter_new(FALSE, None)
    /\ drawn = NothingDrawn
    /\ completer = None
    /\ suggester = None
    /\ overrider = None
    /\ pc = "cursor"
    /\ outcome = None
    /\ panicked = FALSE
    /\ action = None
    /\ redraws = 0
    /\ original = None
    /\ event = None
    /\ builder = <<>>
    /\ raw_mode = FALSE
    /\ terminal = <<>>

\* if amount == 0 { return Ok(()) }
ReturnAtZero ==
    /\ pc = "cursor"
    /\ stdout.at = "entry"
    /\ stdout.amount = 0
    /\ stdout' = [stdout EXCEPT !.at = "done"]
    /\ UNCHANGED <<buffer, completion, suggestions, completer, suggester, overrider,
                   writer, pc, outcome, panicked, action, redraws, drawn, original,
                   event, builder,
                   raw_mode, terminal>>

\* One turn of the loop: a move of u16::MAX columns is queued
QueueMaxMove ==
    /\ pc = "cursor"
    /\ stdout.at \in {"entry", "loop"}
    /\ stdout.amount /= 0
    /\ loop_continues(stdout.remaining)
    /\ stdout' = [stdout EXCEPT
                    !.moves = Append(@, [command |-> MoveOf(stdout.fn), columns |-> u16_MAX]),
                    !.remaining = @ - u16_MAX,
                    !.at = "loop"]
    /\ UNCHANGED <<buffer, completion, suggestions, completer, suggester, overrider,
                   writer, pc, outcome, panicked, action, redraws, drawn, original,
                   event, builder,
                   raw_mode, terminal>>

\* After the loop: a move of `remaining as u16` columns is queued
QueueLastMove ==
    /\ pc = "cursor"
    /\ stdout.at \in {"entry", "loop"}
    /\ stdout.amount /= 0
    /\ ~loop_continues(stdout.remaining)
    /\ stdout' = [stdout EXCEPT
                    !.moves = Append(@, [command |-> MoveOf(stdout.fn),
                                         columns |-> as_u16(stdout.remaining)]),
                    !.at = "done"]
    /\ UNCHANGED <<buffer, completion, suggestions, completer, suggester, overrider,
                   writer, pc, outcome, panicked, action, redraws, drawn, original,
                   event, builder,
                   raw_mode, terminal>>

CursorNext ==
    \/ ReturnAtZero
    \/ QueueMaxMove
    \/ QueueLastMove

CursorSpec == CursorInit /\ [][CursorNext]_vars

RECURSIVE Columns(_)
\* The columns a sequence of moves covers in all
Columns(moves) ==
    IF moves = <<>> THEN 0 ELSE Head(moves).columns + Columns(Tail(moves))

\* C30: a rewind or fast-forward by n has, when it returns, queued moves in
\* its direction of at most u16::MAX columns each that cover n columns in
\* all, also for n a multiple of u16::MAX, and no move for n = 0
C30_MovesInChunks ==
    (pc = "cursor" /\ stdout.at = "done")
    => /\ \A i \in 1..Len(stdout.moves) :
             /\ stdout.moves[i].columns \in 1..u16_MAX
             /\ stdout.moves[i].command = MoveOf(stdout.fn)
       /\ Columns(stdout.moves) = stdout.amount
       /\ stdout.amount = 0 => stdout.moves = <<>>

\* C30 witness: a rewind by twice u16::MAX returned after two moves of
\* u16::MAX columns
C30_Witness_ExactMultiple ==
    /\ pc = "cursor"
    /\ stdout.at = "done"
    /\ stdout.fn = "rewind_cursor"
    /\ stdout.amount = 2 * u16_MAX
    /\ Len(stdout.moves) = 2
    /\ \A i \in 1..2 : stdout.moves[i].columns = u16_MAX

\* ------------------------------------------------------------------------
\* The exits of read_line and the terminal mode
\* ------------------------------------------------------------------------

\* How read_line returned: "Accepted", "Canceled" or "Err"
Exit == Unwrap(outcome)[1]

\* C31: raw mode is on while read_line waits for an event, and on every
\* exit path (Accepted, Canceled, or the error of the terminal sink or of the
\* event source) the writer is dropped and raw mode is off afterwards
C31_RawModeReleased ==
    /\ pc = "read" => raw_mode
    /\ pc = "done" =>
          /\ IsSome(outcome)
          /\ Exit \in {"Accepted", "Canceled", "Err"}
          /\ ~raw_mode

\* The terminal sink failed after something was typed: the error is
\* returned and raw mode is off
C31_Witness_SinkFailureReleases ==
    /\ pc = "done"
    /\ outcome = Some(<<"Err", "terminal sink">>)
    /\ buffer.string /= <<>>
    /\ ~raw_mode

\* ------------------------------------------------------------------------
\* The terminal behind stdout: the lines from the input row down, one cell
\* per column, and the cursor.  The crossterm commands the writer queues
\* act on it.
\* ------------------------------------------------------------------------

\* Redraws of one writer
MaxRedraws == 2

\* The right half of a cluster that is two columns wide
WideRight == "wide"

\* Columns a scalar occupies on the terminal: an emoji is two columns wide
columns_of(c) == IF c = Emoji THEN 2 ELSE 1

RECURSIVE glyphs(_)
\* The cells a text occupies
glyphs(s) ==
    IF s = <<>> THEN <<>>
    ELSE (IF columns_of(Head(s)) = 2 THEN <<Head(s), WideRight>> ELSE <<Head(s)>>)
         \o glyphs(Tail(s))

\* The cells g written over a line from column col on
Overwrite(line, col, g) ==
    LET padded == line \o [i \in 1..(col - Len(line)) |-> " "]
    IN SubSeq(padded, 1, col) \o g \o SubSeq(padded, col + Len(g) + 1, Len(padded))

\* crossterm::style::Print(text) and PrintStyledContent(text)
PrintText(t, text) ==
    [t EXCEPT !.lines[t.row + 1] = Overwrite(@, t.col, glyphs(text)),
              !.col = @ + Len(glyphs(text))]

\* crossterm::cursor::MoveLeft(n): the cursor stops at the first column
MoveLeft(t, n) == [t EXCEPT !.col = IF n > @ THEN 0 ELSE @ - n]

\* crossterm::cursor::MoveRight(n)
MoveRight(t, n) == [t EXCEPT !.col = @ + n]

\* crossterm::cursor::MoveUp(n)
MoveUp(t, n) == [t EXCEPT !.row = IF n > @ THEN 0 ELSE @ - n]

\* crossterm::cursor::MoveToColumn(column)
MoveToColumn(t, column) == [t EXCEPT !.col = column]

\* crossterm::cursor::MoveTo(column, row)
MoveTo(t, column, row) == [t EXCEPT !.col = column, !.row = row]

\* crossterm::terminal::Clear(ClearType::FromCursorDown)
ClearFromCursorDown(t) ==
    [t EXCEPT !.lines =
        [i \in 1..(t.row + 1) |->
            IF i <= t.row THEN t.lines[i]
            ELSE SubSeq(t.lines[i], 1, IF t.col < Len(t.lines[i]) THEN t.col
                                                                ELSE Len(t.lines[i]))]]

\* Print('\n') in raw mode: one row down in the same column
LineFeed(t) ==
    [t EXCEPT !.row = @ + 1,
              !.lines = IF t.row + 2 > Len(@) THEN Append(@, <<>>) ELSE @]

\* Print('\n') once raw mode is off: the start of the next row
NewLine(t) == [MoveToColumn(LineFeed(t), 0) EXCEPT !.newline_at = Some(t.col)]

\* rewind_cursor: its moves of at most u16::MAX columns add up to amount
rewind_cursor(t, amount) == IF amount = 0 THEN t ELSE MoveLeft(t, amount)

\* fast_forward_cursor
fast_forward_cursor(t, amount) == IF amount = 0 THEN t ELSE MoveRight(t, amount)

clear_from(t, amount) == ClearFromCursorDown(rewind_cursor(t, amount))

\* ------------------------------------------------------------------------
\* prompt/writer.rs: what the writer w sends to the terminal t
\* ------------------------------------------------------------------------

\* Writer::begin
begin_on(t, w) == IF IsSome(w.prompt) THEN PrintText(t, Unwrap(w.prompt)) ELSE t

\* Writer::print
print_on(t, w, b, compl) ==
    LET cleared == clear_from(t, w.printed_length - w.cursor_offset)
        printed_length == graphemes_count(b.string)
        cursor_offset == printed_length - graphemes_count(slice(b.string, 0, b.cursor))
        printed == PrintText(cleared, b.string)
        completed == IF IsSome(compl)
                     THEN rewind_cursor(PrintText(printed, Unwrap(compl)),
                                        graphemes_count(Unwrap(compl)))
                     ELSE printed
    IN rewind_cursor(completed, cursor_offset)

RECURSIVE print_options(_, _, _)
\* for (index, suggestion) in suggestions.iter().enumerate(): from option i on
print_options(t, options, i) ==
    IF i > Len(options) THEN t
    ELSE print_options(PrintText(MoveToColumn(LineFeed(t), 0), options[i].string),
                       options, i + 1)

RECURSIVE rewind_options(_, _, _)
\* for suggestion in suggestions.iter().rev(): from option i down
rewind_options(t, options, i) ==
    IF i = 0 THEN t
    ELSE rewind_options(MoveUp(rewind_cursor(t, graphemes_count(options[i].string)), 1),
                        options, i - 1)

\* Writer::print_suggestions
print_suggestions_on(t, w, selected_index, options) ==
    LET cleared == clear_from(t, w.printed_length - w.cursor_offset)
        printed == PrintText(cleared, options[selected_index + 1].string)
        end_of_buffer == printed.col
        rewound == rewind_options(print_options(printed, options, 1), options, Len(options))
        bottom_of_buffer == rewound.row
    IN rewind_cursor(MoveTo(rewound, end_of_buffer, bottom_of_buffer), 0)

\* impl Drop for RuclineWriter, after disable_raw_mode
drop_on(t, w) ==
    IF IsSome(w.erase_on_drop)
    THEN clear_from(t, w.printed_length + Unwrap(w.erase_on_drop))
    ELSE NewLine(ClearFromCursorDown(fast_forward_cursor(t, w.cursor_offset)))

\* ------------------------------------------------------------------------
\* One writer from RuclineWriter::new to its drop, drawing any buffers
\* ------------------------------------------------------------------------

\* The prompts a writer is made with
TermPrompts == {None, Some(<<">", " ">>)}

\* What may stand on the line before the prompt
TermBefore == {<<>>, <<"$", " ">>}

\* The texts handed to print: of one-column clusters, with a two-column
\* emoji, with a flag of two scalars
TermTexts ==
    {<<>>, <<"a">>, <<"a", "x">>, <<Emoji>>, <<"a", Emoji>>, <<Flag, Flag>>}

\* The buffers handed to print: the texts with the cursor on any boundary
TermBuffers ==
    UNION {{[string |-> s, cursor |-> ByteOffset(s, k)] : k \in 0..Len(s)} : s \in TermTexts}

\* The completions handed to print
TermCompletions == {None, Some(<<"x">>), Some(<<Emoji, "x">>)}

TermInit ==
    /\ \E erase_on_drop \in BOOLEAN, prompt \in TermPrompts :
          writer = RuclineWriter_new(erase_on_drop, prompt)
    /\ \E before \in TermBefore :
          terminal = [lines |-> <<before>>, row |-> 0, col |-> Len(before),
                      origin |-> Len(before), newline_at |-> None]
    /\ raw_mode = FALSE
    /\ pc = "new"
    /\ buffer = Buffer_new
    /\ completion = None
    /\ suggestions = None
    /\ drawn = NothingDrawn
    /\ completer = None
    /\ suggester = None
    /\ overrider = None
    /\ outcome = None
    /\ panicked = FALSE
    /\ action = None
    /\ redraws = 0
    /\ original = None
    /\ event = None
    /\ builder = <<>>
    /\ stdout = <<>>

\* The writer's call left the context r and the terminal t
TermStep(r, t) ==
    /\ writer' = r.writer
    /\ drawn' = r.drawn
    /\ terminal' = t
    /\ UNCHANGED <<buffer, completion, suggestions, completer, suggester, overrider,
                   outcome, panicked, action, original, event, builder, stdout>>

\* writer.begin()
TermBegin ==
    /\ pc = "new"
    /\ pc' = "begun"
    /\ raw_mode' = begin_raw_mode(raw_mode)
    /\ TermStep(Context, begin_on(terminal, writer))
    /\ UNCHANGED redraws

\* writer.print(buffer, completion)
TermPrint ==
    /\ pc = "begun"
    /\ redraws < MaxRedraws
    /\ \E b \in TermBuffers, compl \in TermCompletions :
          /\ TermStep(writer_print(Context, b, compl), print_on(terminal, writer, b, compl))
    /\ redraws' = redraws + 1
    /\ UNCHANGED <<pc, raw_mode>>

\* writer.print_suggestions(selected_index, options)
TermPrintSuggestions ==
    /\ pc = "begun"
    /\ redraws < MaxRedraws
    /\ \E list \in OptionLists \ {<<>>} : \E selected_index \in 0..(Len(list) - 1) :
          LET options == [i \in 1..Len(list) |-> Buffer_from(list[i])] IN
          TermStep(writer_print_suggestions(Context, selected_index, options),
                   print_suggestions_on(terminal, writer, selected_index, options))
    /\ redraws' = redraws + 1
    /\ UNCHANGED <<pc, raw_mode>>

\* The writer is dropped
TermDrop ==
    /\ pc = "begun"
    /\ pc' = "dropped"
    /\ raw_mode' = drop_raw_mode(raw_mode)
    /\ TermStep(Context, drop_on(terminal, writer))
    /\ UNCHANGED redraws

TermNext ==
    \/ TermBegin
    \/ TermPrint
    \/ TermPrintSuggestions
    \/ TermDrop

TermSpec == TermInit /\ [][TermNext]_vars

\* The text that stood on the line before the prompt
Before == CHOOSE b \in TermBefore : Len(b) = terminal.origin

\* The prompt as drawn by begin
PromptCells == IF IsSome(writer.prompt) THEN glyphs(Unwrap(writer.prompt)) ELSE <<>>

\* The column where the input area starts
InputStart == terminal.origin + Len(PromptCells)

\* The lines below the input row are blank
PanelCleared == \A i \in 2..Len(terminal.lines) : terminal.lines[i] = <<>>

\* C32: after the drop of a writer made to erase, the terminal cursor is
\* at the column where the prompt began and only what preceded the prompt is
\* left on the line; after the drop of any other writer the line holds the
\* prompt and the last drawn text, the newline was emitted with the cursor
\* at the end of that text, and nothing is left below
C32_TeardownOutput ==
    pc = "dropped" =>
      IF IsSome(writer.erase_on_drop)
      THEN /\ terminal.col = terminal.origin
           /\ terminal.row = 0
           /\ terminal.lines = <<Before>>
      ELSE /\ terminal.lines[1] = Before \o PromptCells \o glyphs(drawn.text)
           /\ terminal.newline_at = Some(InputStart + Len(glyphs(drawn.text)))
           /\ terminal.row = 1
           /\ terminal.col = 0
           /\ PanelCleared

\* Every cluster of the text is one column wide
Narrow(s) == Len(glyphs(s)) = graphemes_count(s)

\* C32, for a writer dropped after one redraw of one-column clusters with
\* the cursor at the end of the text, or erasing from the start of a line
C32_TeardownAtEndOfNarrowText ==
    (/\ pc = "dropped"
     /\ redraws = 1
     /\ Narrow(drawn.text)
     /\ IsSome(drawn.completion) => Narrow(Unwrap(drawn.completion))
     /\ \A i \in 1..Len(drawn.options) : Narrow(drawn.options[i])
     /\ writer.cursor_offset = 0 \/ (terminal.origin = 0 /\ IsSome(writer.erase_on_drop)))
    => C32_TeardownOutput

\* C34: between the writer's calls cursor_offset is at most printed_length,
\* and printed_length - cursor_offset is the number of columns from the
\* start of the input area to the terminal cursor, which is on the input row
C34_RewindReachesInputStart ==
    pc = "begun" =>
      /\ writer.cursor_offset <= writer.printed_length
      /\ terminal.row = 0
      /\ terminal.col - InputStart = writer.printed_length - writer.cursor_offset

\* C34, its first part: the subtraction in print never underflows
C34_NoUnderflow ==
    pc = "begun" => writer.cursor_offset <= writer.printed_length

\* ------------------------------------------------------------------------
\* The inline completion between events
\* ------------------------------------------------------------------------

\* The stored completion is what the completer returns for the buffer
StoredMatches == IsSome(completer) => completion = CompleterResult(buffer)

\* C33: whenever read_line waits for an event with the overlay closed and
\* a completer configured, the stored inline completion is what the completer
\* returns for the buffer
C33_CompletionConsistent ==
    (pc = "read" /\ suggestions = None) => StoredMatches

\* C33, but for a Move that finds the overlay on a selected option: every
\* other event keeps the stored completion equal to the completer's result
C33_ConsistentUnlessMoveMaterializes ==
    [][(/\ pc = "read"
        /\ pc' = "read"
        /\ StoredMatches
        /\ ~(OptionSelected /\ Kind(action') = "Move"))
       => StoredMatches']_vars

\* ------------------------------------------------------------------------
\* Action::Move in Editing state
\* ------------------------------------------------------------------------

\* The event finds the overlay closed and resolves to a Move
MoveInEditing == pc = "read" /\ suggestions = None /\ Kind(action') = "Move"

\* The Move goes forward from the end of the buffer with a completion stored
ForwardFromEnd ==
    action'[3] = "Forward" /\ at_end(buffer) /\ IsSome(completion)

HoldsSuggestionsFor(s, b) ==
    LET returned == suggest_for(Unwrap(suggester), b)
    IN /\ returned /= <<>>
       /\ s.options = [i \in 1..Len(returned) |-> Buffer_from(returned[i])]

\* C36: whenever the overlay is open, its options are the non-empty list
\* the suggester returned for the buffer the overlay was opened on, its index
\* is none or a position in that list, and an event that leaves the overlay
\* open leaves its options as they are
C36_OverlayWellFormed ==
    /\ [](IsSome(suggestions) =>
            /\ IsSome(suggester)
            /\ IsSome(original)
            /\ HoldsSuggestionsFor(Unwrap(suggestions), Unwrap(original))
            /\ \/ Unwrap(suggestions).index = None
               \/ Unwrap(Unwrap(suggestions).index) \in
                     0..(Len(Unwrap(suggestions).options) - 1))
    /\ [][(IsSome(suggestions) /\ IsSome(suggestions'))
          => Unwrap(suggestions').options = Unwrap(suggestions).options]_vars

\* The overlay on two options was cycled past the last one: no option is
\* selected
C36_Witness_CycledPastLast ==
    /\ pc = "read"
    /\ action = Suggest("Forward")
    /\ IsSome(suggestions)
    /\ Unwrap(suggestions).index = None
    /\ Len(Unwrap(suggestions).options) = 2

\* ------------------------------------------------------------------------
\* Events that are not key presses
\* ------------------------------------------------------------------------

NavFunctions == {"next_word", "previous_word", "previous_word_end"}

NavInit ==
    /\ \E s \in TextsUpTo(MaxLen), f \in NavFunctions :
          /\ action = f
          /\ buffer = [string |-> s,
                       cursor |-> IF f = "next_word" THEN 0 ELSE str_len(s)]
    /\ pc = "nav"
    /\ completion = None
    /\ suggestions = None
    /\ writer = RuclineWriter_new(FALSE, None)
    /\ drawn = NothingDrawn
    /\ completer = None
    /\ suggester = None
    /\ overrider = None
    /\ outcome = None
    /\ panicked = FALSE
    /\ redraws = 0
    /\ original = None
    /\ event = None
    /\ builder = <<>>
    /\ stdout = <<>>
    /\ raw_mode = FALSE
    /\ terminal = <<>>

\* The function returned index
NavStep(index) ==
    /\ buffer' = [buffer EXCEPT !.cursor = index]
    /\ UNCHANGED <<completion, suggestions, completer, suggester, overrider, writer,
                   pc, outcome, panicked, action, redraws, drawn, original, event,
                   builder, stdout, raw_mode, terminal>>

\* next_word(index, s), until it returns len(s)
NavNextWord ==
    /\ pc = "nav"
    /\ action = "next_word"
    /\ buffer.cursor /= str_len(buffer.string)
    /\ NavStep(next_word(buffer.cursor, buffer.string))

\* previous_word(index, s), until it returns 0
NavPreviousWord ==
    /\ pc = "nav"
    /\ action = "previous_word"
    /\ buffer.cursor /= 0
    /\ NavStep(previous_word(buffer.cursor, buffer.string))

\* previous_word_end(index, s), until it returns 0
NavPreviousWordEnd ==
    /\ pc = "nav"
    /\ action = "previous_word_end"
    /\ buffer.cursor /= 0
    /\ NavStep(previous_word_end(buffer.cursor, buffer.string))

NavNext ==
    \/ NavNextWord
    \/ NavPreviousWord
    \/ NavPreviousWordEnd

\* Every call that can be made is made
NavSpec == NavInit /\ [][NavNext]_vars /\ WF_vars(NavNext)

\* A segment of s that does not begin with whitespace starts at byte i
IsWordStart(s, i) ==
    \E p \in split_word_bound_indices(s) : p.off = i /\ ~is_whitespace(p.text[1])

\* A segment of s that does not begin with whitespace ends at byte i
IsWordEnd(s, i) ==
    \E p \in split_word_bound_indices(s) :
        p.off + str_len(p.text) = i /\ ~is_whitespace(p.text[1])

\* The iteration has come to its last index
NavDone ==
    buffer.cursor = IF action = "next_word" THEN str_len(buffer.string) ELSE 0

\* C38: every call of next_word from 0 on returns a larger index, the
\* start of a segment not beginning with whitespace or len(s); every call of
\* previous_word (previous_word_end) from len(s) on returns a smaller index,
\* the start (end) of such a segment or 0; and each iteration comes to its
\* last index, len(s) or 0
C38_WordNavigationTerminates ==
    /\ [][(pc = "nav" /\ buffer' /= buffer)
          => LET s == buffer.string
                 i == buffer.cursor
                 j == buffer'.cursor
             IN /\ buffer'.string = s
                /\ action = "next_word"
                      => i < j /\ (j = str_len(s) \/ IsWordStart(s, j))
                /\ action = "previous_word"
                      => j < i /\ (j = 0 \/ IsWordStart(s, j))
                /\ action = "previous_word_end"
                      => j < i /\ (j = 0 \/ IsWordEnd(s, j))]_vars
    /\ <>NavDone

\* From the end of "a x" previous_word_end went to 1, the end of "a"
C38_Witness_BackToEndOfA ==
    /\ pc = "nav"
    /\ action = "previous_word_end"
    /\ buffer = [string |-> <<"a", " ", "x">>, cursor |-> 1]

\* ------------------------------------------------------------------------
\* Action::Complete with the list completer
\* ------------------------------------------------------------------------

\* The first candidate in list order that begins with the text of b
FirstCandidate(b) ==
    LET candidates == Unwrap(completer)
    IN candidates[SetMin({i \in 1..Len(candidates) : starts_with(candidates[i], b.string)})]

\* The list completer is configured and the non-empty text of b begins a candidate
BeginsCandidate(b) ==
    /\ IsSome(completer)
    /\ b.string /= <<>>
    /\ \E i \in 1..Len(Unwrap(completer)) : starts_with(Unwrap(completer)[i], b.string)

\* The event just handled resolved to Complete(range) on a buffer that
\* begins a candidate
Completed(range) ==
    /\ pc = "read"
    /\ pc' = "read"
    /\ action' = <<"Complete", range>>
    /\ BeginsCandidate(buffer)

\* Complete(Line) left the first candidate, and Complete(Word) left a longer
\* beginning of it unless the buffer already held all of it
CompleteReaches ==
    /\ Completed("Line") => buffer'.string = FirstCandidate(buffer)
    /\ Completed("Word")
          => /\ starts_with(FirstCandidate(buffer), buffer'.string)
             /\ starts_with(buffer'.string, buffer.string)
             /\ FirstCandidate(buffer') = FirstCandidate(buffer)
             /\ buffer.string /= FirstCandidate(buffer)
                   => Len(buffer'.string) > Len(buffer.string)

\* C39: with the list completer and a non-empty buffer that begins a
\* candidate, Complete(Line) makes the buffer the first candidate in list
\* order that begins with it, and every Complete(Word) appends a non-empty
\* piece of what is left of that same candidate, so that repeating it reaches
\* the same buffer
C39_CompleteReachesFirstCandidate ==
    [][CompleteReaches]_vars

\* The same when the stored completion is the one the completer returns for
\* the buffer
C39_CompleteReachesWhenConsistent ==
    [][completion = CompleterResult(buffer) => CompleteReaches]_vars
====
